---------------------------- MODULE Spec2Model ----------------------------
(***************************************************************************)
(* A model of the NDLP / Project Jarvis backend: the EVC engine (hormones, *)
(* emotions, memory, trust), the user-emotion tracker, the session manager *)
(* and the /api/chat turn orchestrator with its persistence backends.      *)
(*                                                                         *)
(* Real numbers are carried in fixed point: a value x of the program is    *)
(* the integer x * SCALE, i.e. at the four decimals the program reports    *)
(* in its turn records.  Vectors of 8 reals are tuples of 8 integers.      *)
(***************************************************************************)
EXTENDS Integers, Sequences, FiniteSets, TLC

\* ------------------------------------------------------------------------
\* Fixed-point arithmetic
\* ------------------------------------------------------------------------

SCALE == 10000

NUM_HORMONES == 8

NUM_EMOTIONS == 8

Idx == 1..NUM_HORMONES

\* the vector <<F(1), ..., F(8)>>, every component evaluated once
Vec(F(_)) == SubSeq([i \in Idx |-> F(i)], 1, NUM_HORMONES)

\* F applied to the value v: v is computed once, however often F uses it
With(v, F(_)) == F(v)

Abs(x) == IF x < 0 THEN -x ELSE x

Max(a, b) == IF a > b THEN a ELSE b

Min(a, b) == IF a < b THEN a ELSE b

\* n / d rounded to the nearest integer (d > 0)
RoundDiv(n, d) == (n + (d \div 2)) \div d

\* product of two fixed-point numbers; |a * b| stays below 2^31
Mul(a, b) == RoundDiv(a * b, SCALE)

\* product of a large non-negative a with b, without overflowing a * b
MulWide(a, b) == (a \div SCALE) * b + RoundDiv((a % SCALE) * b, SCALE)

\* np.clip(x, lo, hi) and main._clamp(x, lo, hi) = max(lo, min(hi, x))
Clamp(x, lo, hi) == Max(lo, Min(hi, x))

\* round(x, 4): the model's grid is the fourth decimal
Round4(x) == RoundDiv(x * 10, 10)

\* the two decimals of a "%.2f" format, as an integer number of hundredths
Round2(x) == RoundDiv(x, 100)

LN2 == 6931

\* e^(-x) for x >= 0: x = k * ln 2 + r, e^(-x) = 2^(-k) * e^(-r), the
\* latter by its Taylor polynomial of degree 6 in Horner form
ExpNegFrac(r) ==
    LET t6 == SCALE - (r \div 6)
        t5 == SCALE - (Mul(r, t6) \div 5)
        t4 == SCALE - (Mul(r, t5) \div 4)
        t3 == SCALE - (Mul(r, t4) \div 3)
        t2 == SCALE - (Mul(r, t3) \div 2)
    IN  SCALE - Mul(r, t2)

ExpNeg(x) ==
    LET k == x \div LN2
        r == x % LN2
    IN  IF k >= 15 THEN 0 ELSE RoundDiv(ExpNegFrac(r), 2 ^ k)

\* x^5 of a fixed-point number in [0, 1]
Pow5(r) == Mul(Mul(Mul(Mul(r, r), r), r), r)

RECURSIVE Root5Search(_, _, _)
Root5Search(x, lo, hi) ==
    IF hi - lo <= 1
    THEN IF Pow5(hi) <= x THEN hi ELSE lo
    ELSE LET mid == (lo + hi) \div 2
         IN  IF Pow5(mid) <= x THEN Root5Search(x, mid, hi)
                               ELSE Root5Search(x, lo, mid)

\* x ** 0.2 for x in [0, 1]
Root5(x) == IF x <= 0 THEN 0 ELSE Root5Search(x, 0, SCALE)

\* x ** 1.2 and x ** 0.8 for x in [0, 1]
PowUp(x) == Mul(x, Root5(x))

PowDown(x) == IF x <= 0 THEN 0 ELSE RoundDiv(x * SCALE, Root5(x))

\* sum of a tuple of integers
RECURSIVE SumTo(_, _)
SumTo(v, n) == IF n = 0 THEN 0 ELSE v[n] + SumTo(v, n - 1)

Sum(v) == SumTo(v, Len(v))

\* row . vector, the row in hundredths, the vector in fixed point
Dot100(row, v) == RoundDiv(Sum(Vec(LAMBDA j : row[j] * v[j])), 100)

\* s[-n:]
LastN(s, n) == IF Len(s) <= n THEN s ELSE SubSeq(s, Len(s) - n + 1, Len(s))

\* s[:n]
FirstN(s, n) == IF Len(s) <= n THEN s ELSE SubSeq(s, 1, n)

\* ------------------------------------------------------------------------
\* Configuration (project_jarvis/config.py), in fixed point
\* ------------------------------------------------------------------------

HORMONE_NAMES ==
    <<"Dopamine", "Serotonin", "Oxytocin", "Endorphin",
      "Cortisol", "Adrenaline", "GABA", "Norepinephrine">>

EMOTION_NAMES ==
    <<"Joy", "Serenity", "Love", "Excitement",
      "Sadness", "Fear", "Anger", "Surprise">>

H_BASELINE == <<5000, 6000, 4000, 3000, 3000, 2000, 5000, 3000>>

HALF_LIFE_TURNS == <<4000, 60000, 8000, 40000, 150000, 5000, 60000, 5000>>

HALF_LIFE_MIN_FACTOR == 6500

HALF_LIFE_MAX_FACTOR == 20000

HALF_LIFE_STRESS_SENS == <<-1500, -1000, -2000, 500, 6500, 4500, -500, 3500>>

HALF_LIFE_ACTIVATION_SENS == <<2500, 2000, 2000, 2000, 7000, 4000, 2000, 3500>>

P_POS == <<8000, 5000, 6000, 4000, -3000, 1000, 3000, 1000>>

P_NEG == <<6000, 5000, 4000, 2000, -8000, -6000, 4000, -5000>>

\* H_INTERACT[i][j], in hundredths: how hormone j affects hormone i
H_INTERACT ==
    << << 0,  5,  3,  2, -4,  2,  0,  3>>,
       << 3,  0,  4,  3, -8, -2,  5, -2>>,
       << 2,  3,  0,  2, -6, -3,  3, -2>>,
       << 3,  4,  3,  0, -3,  0,  2,  0>>,
       <<-2, -3, -6, -4,  0,  4, -5,  3>>,
       << 2, -2, -3,  0,  5,  0, -8,  5>>,
       << 2,  4,  3,  3, -4, -3,  0, -3>>,
       << 3, -2, -2,  0,  4,  5, -6,  0>> >>

INTERACTION_STRENGTH == 1500

NEGATIVITY_BIAS == 15000

\* W_MATRIX[emotion][hormone], in hundredths
W_MATRIX ==
    << << 35,  20,  15,  20, -15,   0,  10,   0>>,
       <<  5,  35,  10,  15, -20, -15,  30, -10>>,
       << 10,  15,  40,  10, -10,  -5,  10,   0>>,
       << 25,  -5,   5,  15,   0,  30, -15,  20>>,
       <<-20, -40, -15, -15,  45,   5, -20,   5>>,
       <<-10, -15, -10, -10,  35,  25, -20,  25>>,
       <<-10, -20, -15,  -5,  25,  20, -25,  30>>,
       << 10, -10,   0,   5,  10,  30, -20,  25>> >>

RECOVERY_RATE == 1000

STIMULUS_GAIN == 6000

SOFT_CLAMP_SHARPNESS == 28000

PERSONALITY_DEFAULT == <<10000, 10000, 10000, 10000, 10000, 10000, 10000, 10000>>

PERSONALITY_SENSITIVE == <<15000, 8000, 13000, 10000, 15000, 13000, 7000, 12000>>

PERSONALITY_CALM == <<8000, 13000, 10000, 12000, 6000, 5000, 15000, 6000>>

PERSONALITY_CHEERFUL == <<15000, 12000, 13000, 12000, 5000, 5000, 12000, 6000>>

MEMORY_BETA == 9000

TRUST_GAMMA == 600

TRUST_LAMBDA == 500

TRUST_INITIAL == 5000

TRUST_MIN == 500

TRUST_MAX == 9500

\* ------------------------------------------------------------------------
\* HormoneSystem (project_jarvis/hormones.py)
\* A hormone system is a record [H, H_prev, K, history].
\* ------------------------------------------------------------------------

NewHormoneSystem(personality) ==
    [H |-> H_BASELINE, H_prev |-> H_BASELINE, K |-> personality,
     history |-> <<H_BASELINE>>]

calculate_stimulus(S, D, C) ==
    LET D_eff == Mul(D, NEGATIVITY_BIAS)
    IN  Vec(LAMBDA i :
            Mul(Mul(P_POS[i], S), C) - Mul(Mul(P_NEG[i], D_eff), C))

compute_decay_factor(H, D, C, delta_t) ==
    LET stress_level == Clamp(Mul(D, C), 0, 15000)
        activation == Vec(LAMBDA i : Abs(H[i] - H_BASELINE[i]))
        half_life_factor == Vec(LAMBDA i :
            Clamp(SCALE + Mul(HALF_LIFE_STRESS_SENS[i], stress_level)
                        + Mul(HALF_LIFE_ACTIVATION_SENS[i], activation[i]),
                  HALF_LIFE_MIN_FACTOR, HALF_LIFE_MAX_FACTOR))
        effective_half_life == Vec(LAMBDA i :
            RoundDiv((HALF_LIFE_TURNS[i] \div 100) * half_life_factor[i], 100))
        dynamic_lambda == Vec(LAMBDA i :
            RoundDiv(LN2 * SCALE, Max(effective_half_life[i], 1)))
    IN  Vec(LAMBDA i : ExpNeg(MulWide(delta_t, dynamic_lambda[i])))

\* a hard clip to [0, 1] in the place of the soft one
HardClip01(x) == Clamp(x, 0, SCALE)

\* the logistic function of (x - 0.5) * SOFT_CLAMP_SHARPNESS
soft_clip01(x) ==
    LET z == Mul(x - 5000, SOFT_CLAMP_SHARPNESS)
    IN  IF z >= 0
        THEN RoundDiv(SCALE * SCALE, SCALE + ExpNeg(z))
        ELSE RoundDiv(ExpNeg(-z) * SCALE, SCALE + ExpNeg(-z))

\* H_new = H * decay + STIMULUS_GAIN * K * stimulus
\*         + RECOVERY_RATE * (baseline - H)
LinearUpdate(hs, S, D, C, delta_t) ==
    LET stimulus == calculate_stimulus(S, D, C)
        decay_factor == compute_decay_factor(hs.H, D, C, delta_t)
    IN  Vec(LAMBDA i :
            Mul(hs.H[i], decay_factor[i])
            + Mul(STIMULUS_GAIN, Mul(hs.K[i], stimulus[i]))
            + Mul(RECOVERY_RATE, H_BASELINE[i] - hs.H[i]))

\* H_new += INTERACTION_STRENGTH * (H_INTERACT @ H_new), then the soft clip
InteractAndClip(lin) ==
    Vec(LAMBDA i :
        soft_clip01(lin[i] + Mul(INTERACTION_STRENGTH,
                                 Dot100(H_INTERACT[i], lin))))

HormonesUpdate(hs, S, D, C, delta_t) ==
    With(With(LinearUpdate(hs, S, D, C, delta_t), InteractAndClip),
         LAMBDA clipped :
            [hs EXCEPT !.H_prev = hs.H,
                       !.H = clipped,
                       !.history = Append(hs.history, clipped)])

get_delta(hs) == Vec(LAMBDA i : hs.H[i] - hs.H_prev[i])

\* a reset that leaves the history as it is
HormonesResetKeepsHistory(hs) ==
    [hs EXCEPT !.H = H_BASELINE, !.H_prev = H_BASELINE]

HormonesReset(hs) ==
    [hs EXCEPT !.H = H_BASELINE, !.H_prev = H_BASELINE,
               !.history = <<H_BASELINE>>]

\* ------------------------------------------------------------------------
\* EmotionMapper (project_jarvis/emotions.py)
\* An emotion mapper is a record [emotions_raw, emotions_normalized, history].
\* ------------------------------------------------------------------------

ZeroVector == Vec(LAMBDA i : 0)

NewEmotionMapper ==
    [emotions_raw |-> ZeroVector, emotions_normalized |-> ZeroVector,
     history |-> <<>>]

\* a compute without the rectification of the raw scores
EmotionsComputeNoRelu(em, H) ==
    LET raw == Vec(LAMBDA e : Dot100(W_MATRIX[e], H))
        total == Sum(raw)
        normalized == IF total > 0
                      THEN Vec(LAMBDA e : RoundDiv(raw[e] * SCALE, total))
                      ELSE Vec(LAMBDA e : SCALE \div NUM_EMOTIONS)
    IN  [emotions_raw |-> raw,
         emotions_normalized |-> normalized,
         history |-> Append(em.history, normalized)]

EmotionsCompute(em, H) ==
    LET raw == Vec(LAMBDA e : Max(0, Dot100(W_MATRIX[e], H)))
        total == Sum(raw)
        normalized == IF total > 0
                      THEN Vec(LAMBDA e : RoundDiv(raw[e] * SCALE, total))
                      ELSE Vec(LAMBDA e : SCALE \div NUM_EMOTIONS)
    IN  [emotions_raw |-> raw,
         emotions_normalized |-> normalized,
         history |-> Append(em.history, normalized)]

\* np.argmax: the first index holding the maximum
ArgMax(E) ==
    CHOOSE i \in Idx : /\ \A j \in Idx : E[j] <= E[i]
                       /\ \A j \in Idx : j < i => E[j] < E[i]

get_dominant(em) ==
    LET idx == ArgMax(em.emotions_normalized)
    IN  <<EMOTION_NAMES[idx], em.emotions_normalized[idx]>>

\* np.argsort(E)[::-1]: ascending order with equal scores kept in index
\* order (the insertion sort numpy applies to 8 elements), then reversed
RECURSIVE ArgSortDesc(_, _)
ArgSortDesc(E, left) ==
    IF left = {} THEN <<>>
    ELSE LET top == CHOOSE i \in left : \A j \in left :
                        E[j] < E[i] \/ (E[j] = E[i] /\ j <= i)
         IN  <<top>> \o ArgSortDesc(E, left \ {top})

get_top_n(em, n) ==
    LET order == SubSeq(ArgSortDesc(em.emotions_normalized, Idx), 1, n)
    IN  [k \in 1..n |->
            <<EMOTION_NAMES[order[k]], Round4(em.emotions_normalized[order[k]])>>]

\* "Name(0.dd) + Name(0.dd) + Name(0.dd)": the names with their two decimals
get_emotion_label(em) ==
    LET top3 == get_top_n(em, 3)
    IN  [k \in 1..3 |-> <<top3[k][1], Round2(top3[k][2])>>]

EmotionsReset == NewEmotionMapper

\* ------------------------------------------------------------------------
\* EVCEngine (project_jarvis/evc_core.py)
\* An engine is a record [name, hormones, emotions, memory, trust, turn,
\* turn_log].
\* ------------------------------------------------------------------------

NewEngine(personality, name) ==
    [name |-> name,
     hormones |-> NewHormoneSystem(personality),
     emotions |-> NewEmotionMapper,
     memory |-> H_BASELINE,
     trust |-> TRUST_INITIAL,
     turn |-> 0,
     turn_log |-> <<>>]

\* a trust update without the soft saturation and without the final clip
TrustUpdateLinear(trust, S, D) ==
    trust + Mul(TRUST_GAMMA, S) - Mul(TRUST_LAMBDA, D)

\* a trust update that also relaxes a tenth of the way to TRUST_INITIAL
TrustUpdateRelaxing(trust, S, D) ==
    LET trust_room_up == Max(TRUST_MAX - trust, 0)
        trust_room_down == Max(trust - TRUST_MIN, 0)
        trust_up == Mul(Mul(TRUST_GAMMA, S), PowUp(trust_room_up))
        trust_down == Mul(Mul(TRUST_LAMBDA, D), PowDown(trust_room_down))
        relax == (TRUST_INITIAL - trust) \div 10
    IN  Clamp(trust + trust_up - trust_down + relax, TRUST_MIN, TRUST_MAX)

TrustUpdate(trust, S, D) ==
    LET trust_room_up == Max(TRUST_MAX - trust, 0)
        trust_room_down == Max(trust - TRUST_MIN, 0)
        trust_up == Mul(Mul(TRUST_GAMMA, S), PowUp(trust_room_up))
        trust_down == Mul(Mul(TRUST_LAMBDA, D), PowDown(trust_room_down))
    IN  Clamp(trust + trust_up - trust_down, TRUST_MIN, TRUST_MAX)

MemoryUpdate(memory, H) ==
    Vec(LAMBDA i : Mul(MEMORY_BETA, memory[i]) + Mul(SCALE - MEMORY_BETA, H[i]))

\* steps 4 to 7 of process_turn, from the updated hormones and emotions
TurnOutcome(e, S, D, C, delta_t, message, hs, em, dominant, trust) ==
    LET turn == e.turn + 1
        delta_H == get_delta(hs)
        top3 == get_top_n(em, 3)
        emotion_label == get_emotion_label(em)
        memory == MemoryUpdate(e.memory, hs.H)
        output_intensity == Mul(trust, dominant[2])
        result ==
            [turn |-> turn,
             message |-> message,
             delta_t |-> Round4(delta_t),
             input |-> [S |-> S, D |-> D, C |-> C],
             hormones |-> Vec(LAMBDA i : Round4(hs.H[i])),
             hormone_delta |-> Vec(LAMBDA i : Round4(delta_H[i])),
             emotions |-> Vec(LAMBDA i : Round4(em.emotions_normalized[i])),
             dominant_emotion |-> dominant[1],
             dominant_score |-> Round4(dominant[2]),
             emotion_blend |-> emotion_label,
             top3_emotions |-> top3,
             memory |-> Vec(LAMBDA i : Round4(memory[i])),
             trust |-> Round4(trust),
             output_intensity |-> Round4(output_intensity)]
    IN  [e EXCEPT !.turn = turn,
                  !.hormones = hs,
                  !.emotions = em,
                  !.memory = memory,
                  !.trust = trust,
                  !.turn_log = Append(e.turn_log, result)]

\* the engine after process_turn; the record it returns is the last entry
\* of turn_log
ProcessTurn(e, S, D, C, delta_t, message) ==
    With(HormonesUpdate(e.hormones, S, D, C, delta_t), LAMBDA hs :
        With(EmotionsCompute(e.emotions, hs.H), LAMBDA em :
            TurnOutcome(e, S, D, C, delta_t, message, hs, em,
                        get_dominant(em), TrustUpdate(e.trust, S, D))))

LastResult(e) == e.turn_log[Len(e.turn_log)]

GetFullState(e) ==
    [turn |-> e.turn,
     hormones |-> e.hormones.H,
     memory |-> e.memory,
     trust |-> e.trust,
     name |-> e.name]

\* a load_state that leaves the emotional memory of the receiving engine
LoadStateDropsMemory(e, state) ==
    [e EXCEPT !.turn = state.turn,
              !.hormones = [e.hormones EXCEPT !.H = state.hormones,
                                              !.H_prev = state.hormones],
              !.trust = state.trust,
              !.name = state.name]

LoadState(e, state) ==
    [e EXCEPT !.turn = state.turn,
              !.hormones = [e.hormones EXCEPT !.H = state.hormones,
                                              !.H_prev = state.hormones],
              !.memory = state.memory,
              !.trust = state.trust,
              !.name = state.name]

\* the keys load_state reads as state[key], in the order it reads them
LoadedKeys == <<"turn", "hormones", "memory", "trust">>

\* load_state on a snapshot without the key `missing`: the KeyError leaves
\* the assignments made before it
LoadStateUntil(e, state, missing) ==
    LET at == CHOOSE i \in 1..Len(LoadedKeys) : LoadedKeys[i] = missing
        e1 == IF at > 1 THEN [e EXCEPT !.turn = state.turn] ELSE e
        e2 == IF at > 2
              THEN [e1 EXCEPT !.hormones =
                       [e.hormones EXCEPT !.H = state.hormones,
                                          !.H_prev = state.hormones]]
              ELSE e1
    IN  IF at > 3 THEN [e2 EXCEPT !.memory = state.memory] ELSE e2

\* a reset that leaves turn_log as it is
EngineResetKeepsLog(e) ==
    [e EXCEPT !.hormones = HormonesReset(e.hormones),
              !.emotions = EmotionsReset,
              !.memory = H_BASELINE,
              !.trust = TRUST_INITIAL,
              !.turn = 0]

EngineReset(e) ==
    [e EXCEPT !.hormones = HormonesReset(e.hormones),
              !.emotions = EmotionsReset,
              !.memory = H_BASELINE,
              !.trust = TRUST_INITIAL,
              !.turn = 0,
              !.turn_log = <<>>]

\* ------------------------------------------------------------------------
\* UserEmotionTracker (backend/user_emotion_tracker.py)
\* A tracker is a record [turn_count, history, engine, last_turn_result].
\* ------------------------------------------------------------------------

MAX_HISTORY == 50

NoResult == [turn |-> -1]

NoSnapshot == [name |-> "none"]

NewTracker ==
    [turn_count |-> 0,
     history |-> <<>>,
     engine |-> NewEngine(PERSONALITY_DEFAULT, "User"),
     last_turn_result |-> NoResult]

\* a record_turn whose history is a list without a maximal length
RecordTurnUnbounded(t, S, D, C, user_emotion, delta_t, message_preview) ==
    LET turn_count == t.turn_count + 1
        entry == [turn |-> turn_count,
                  S |-> Round4(S), D |-> Round4(D), C |-> Round4(C),
                  user_emotion |-> user_emotion,
                  message_preview |-> message_preview]
    IN  With(ProcessTurn(t.engine, S, D, C, delta_t, message_preview),
             LAMBDA engine :
                [turn_count |-> turn_count,
                 history |-> Append(t.history, entry),
                 engine |-> engine,
                 last_turn_result |-> LastResult(engine)])

\* history is a deque(maxlen=MAX_HISTORY): an append to a full deque drops
\* its oldest entry
record_turn(t, S, D, C, user_emotion, delta_t, message_preview) ==
    LET turn_count == t.turn_count + 1
        entry == [turn |-> turn_count,
                  S |-> Round4(S), D |-> Round4(D), C |-> Round4(C),
                  user_emotion |-> user_emotion,
                  message_preview |-> message_preview]
        grown == Append(t.history, entry)
    IN  With(ProcessTurn(t.engine, S, D, C, delta_t, message_preview),
             LAMBDA engine :
                [turn_count |-> turn_count,
                 history |-> IF Len(grown) > MAX_HISTORY THEN Tail(grown)
                             ELSE grown,
                 engine |-> engine,
                 last_turn_result |-> LastResult(engine)])

TrackerGetState(t) ==
    [turn_count |-> t.turn_count,
     engine_state |-> GetFullState(t.engine),
     last_turn_result |-> t.last_turn_result,
     history |-> t.history]

\* the entries are appended one by one to the cleared deque
TrackerLoadState(t, state) ==
    [turn_count |-> state.turn_count,
     history |-> LastN(state.history, MAX_HISTORY),
     engine |-> LoadState(t.engine, state.engine_state),
     last_turn_result |-> state.last_turn_result]

RECENT_WINDOW == 5

OLDER_WINDOW == 15

TREND_THRESHOLD == 1200

\* s[lo:hi] of Python, for negative lo and hi
NegSlice(s, lo, hi) == SubSeq(s, Max(Len(s) + lo, 0) + 1, Len(s) + hi)

\* sum of S - D over the records
RECURSIVE PositivitySum(_)
PositivitySum(records) ==
    IF records = <<>> THEN 0
    ELSE Head(records).S - Head(records).D + PositivitySum(Tail(records))

\* the verdict of get_trend on two non-empty windows: diff is
\* (avg S - avg D)(recent) - (avg S - avg D)(older), compared with the
\* threshold exactly (both sides multiplied by the two window lengths)
TrendOf(recent, older) ==
    LET scaled_diff == PositivitySum(recent) * Len(older)
                       - PositivitySum(older) * Len(recent)
        scaled_threshold == TREND_THRESHOLD * Len(recent) * Len(older)
    IN  IF scaled_diff > scaled_threshold THEN "improving"
        ELSE IF scaled_diff < -scaled_threshold THEN "worsening"
        ELSE "stable"

get_trend(t) ==
    IF Len(t.history) < RECENT_WINDOW + 2 THEN "insufficient"
    ELSE LET recent == LastN(t.history, RECENT_WINDOW)
             older == IF Len(t.history) > RECENT_WINDOW
                      THEN NegSlice(t.history, -OLDER_WINDOW, -RECENT_WINDOW)
                      ELSE FirstN(t.history, RECENT_WINDOW)
         IN  IF older = <<>> THEN "insufficient" ELSE TrendOf(recent, older)

\* ------------------------------------------------------------------------
\* GroqBridge (backend/groq_bridge.py)
\* ------------------------------------------------------------------------

\* the reply generate_reply returns when no client is configured
MOCK_REPLY == "mock reply"

\* of the messages explored, the ones that contain one of the keywords of
\* the heuristic ("bad", "sad", "angry", ...)
NegativeMessages == {"bad day"}

\* analyze_message without a client
HeuristicAnalysis(message) ==
    IF message \in NegativeMessages
    THEN [S |-> 2000, D |-> 6000, C |-> 11000, user_emotion |-> "negative"]
    ELSE [S |-> 6000, D |-> 1000, C |-> 9000,
          user_emotion |-> "neutral-positive"]

\* analyze_message when the call returns: without a client the heuristic,
\* with a client what the model answered (llm)
analyze_message(client, message, llm) ==
    IF ~client THEN HeuristicAnalysis(message) ELSE llm

\* generate_reply when the call returns
generate_reply(client, llm_reply) ==
    IF ~client THEN MOCK_REPLY ELSE llm_reply

\* extract_facts: nothing without a client
extract_facts(client, llm_facts) ==
    IF ~client THEN <<>> ELSE llm_facts

\* ------------------------------------------------------------------------
\* SessionManager and the chat orchestrator (backend/session_manager.py,
\* backend/main.py)
\* ------------------------------------------------------------------------

\* seconds per turn; delta_t bounds in turns
TURN_SECONDS == 300

MIN_DELTA_T == 500

MAX_DELTA_T == 120000

NoTs == -1

NoConversation == 0

\* elapsed turns without the clamp to [MIN_DELTA_T, MAX_DELTA_T]
DeltaTUnclamped(last_ts, now_ts) ==
    IF last_ts = NoTs
    THEN SCALE
    ELSE RoundDiv(Max(now_ts - last_ts, 0) * SCALE, TURN_SECONDS)

\* the delta_t of _compute_delta_t_turns, from the stored last_turn_ts
compute_delta_t_turns(last_ts, now_ts) ==
    IF last_ts = NoTs
    THEN SCALE
    ELSE Clamp(RoundDiv(Max(now_ts - last_ts, 0) * SCALE, TURN_SECONDS),
               MIN_DELTA_T, MAX_DELTA_T)

\* state.data of a new SessionState, with the defaults the handler reads
\* through data.get; user_emotion_tracker refers to a tracker object (0: none)
EmptyData ==
    [evc_restored |-> FALSE,
     user_emotion_tracker |-> 0,
     last_turn_ts |-> NoTs,
     latest_turn |-> NoResult,
     chat_history |-> <<>>,
     conversation_id |-> NoConversation,
     last_reply |-> ""]

\* SessionState(session_id, engine=create_evc_engine())
NewSessionState(session_id) ==
    [session_id |-> session_id,
     engine |-> NewEngine(PERSONALITY_DEFAULT, "Jarvis"),
     turn |-> 0,
     data |-> EmptyData]

\* the value of _sessions.get(session_id) for an absent id
NoSession == [session_id |-> "none"]

\* session ids: a plain one, and "conv_" followed by a conversation id
SessionIds == {"s1", "conv_1"}

\* SessionManager(engine_factory=create_evc_engine)
NewSessionManager == [sessions |-> [sid \in SessionIds |-> NoSession]]

\* SessionManager.get_or_create run as a whole: the manager afterwards, the
\* state returned and the number of calls of the engine factory
get_or_create(m, session_id) ==
    LET found == m.sessions[session_id]
        state == IF found = NoSession THEN NewSessionState(session_id)
                 ELSE found
        returned == [state EXCEPT !.turn = state.engine.turn]
    IN  [manager |-> [m EXCEPT !.sessions[session_id] = returned],
         state |-> returned,
         factory_calls |-> IF found = NoSession THEN 1 ELSE 0]

\* a reset that reports the entry and leaves it in the map
SessionsResetKeepsEntry(m, session_id) ==
    [manager |-> m,
     ret |-> m.sessions[session_id] # NoSession]

\* SessionManager.reset: _sessions.pop(session_id, None) is not None
SessionsReset(m, session_id) ==
    [manager |-> [m EXCEPT !.sessions[session_id] = NoSession],
     ret |-> m.sessions[session_id] # NoSession]

\* session_id.startswith("conv_")
IsResume(session_id) == session_id = "conv_1"

\* session_id[5:]
ResumeId(session_id) == IF session_id = "conv_1" THEN 1 ELSE NoConversation

NoUser == [id |-> "none", is_guest |-> FALSE]

\* "user and not user.is_guest"
Authenticated(user) == user # NoUser /\ ~user.is_guest

\* get_messages(conversation_id, limit): the rows of the conversation in
\* creation order, the first `limit` of them
get_messages(rows, conversation_id, limit) ==
    FirstN(SelectSeq(rows, LAMBDA r : r.conversation_id = conversation_id),
           limit)

\* the value of an unset first_mentioned / last_confirmed
NoTime == -1

\* UserFactDTO(id, user_id, category, key, value, confidence, source), the
\* other fields at their defaults, as learn_fact constructs it
UserFactDTO(id, user_id, category, key, value, confidence, source) ==
    [id |-> id, user_id |-> user_id, category |-> category, key |-> key,
     value |-> value, confidence |-> confidence, source |-> source,
     first_mentioned |-> NoTime, last_confirmed |-> NoTime,
     mention_count |-> 1, is_active |-> TRUE]

\* the rows of the key (user_id, category, key) of fact
SameKey(facts, fact) ==
    {f \in facts : /\ f.user_id = fact.user_id
                   /\ f.category = fact.category
                   /\ f.key = fact.key}

\* an upsert_fact that never looks for an existing row
UpsertAlwaysInserts(backend, facts, fact, now) ==
    facts \cup
        {[fact EXCEPT
             !.first_mentioned = IF fact.first_mentioned = NoTime THEN now
                                 ELSE fact.first_mentioned,
             !.last_confirmed = now,
             !.mention_count = IF backend = "sqlite" THEN fact.mention_count
                               ELSE 1,
             !.is_active = IF backend = "sqlite" THEN fact.is_active
                           ELSE TRUE]}

\* upsert_fact of the two repositories, at time now: the row found for the
\* key is updated in place; without one the fact is inserted (the sqlite
\* repository stores the DTO's mention_count and is_active, the firebase
\* repository 1 and true)
upsert_fact(backend, facts, fact, now) ==
    IF SameKey(facts, fact) # {}
    THEN LET found == CHOOSE f \in SameKey(facts, fact) : TRUE
         IN  (facts \ {found}) \cup
                 {[found EXCEPT !.value = fact.value,
                                !.confidence = fact.confidence,
                                !.source = fact.source,
                                !.last_confirmed = now,
                                !.mention_count = found.mention_count + 1,
                                !.is_active = fact.is_active]}
    ELSE facts \cup
             {[fact EXCEPT
                  !.first_mentioned = IF fact.first_mentioned = NoTime THEN now
                                      ELSE fact.first_mentioned,
                  !.last_confirmed = now,
                  !.mention_count = IF backend = "sqlite" THEN fact.mention_count
                                    ELSE 1,
                  !.is_active = IF backend = "sqlite" THEN fact.is_active
                                ELSE TRUE]}

\* UserMemory.learn_fact; uuid4 gives an id no row has
learn_fact(backend, facts, user_id, key, value, category, confidence, source, now) ==
    upsert_fact(backend, facts,
                UserFactDTO(Cardinality(facts) + 1, user_id, category, key,
                            value, confidence, source),
                now)

\* the loop over raw_facts of the chat handler: each fact of confidence
\* >= 0.5 is learned
RECURSIVE LearnFacts(_, _, _, _, _)
LearnFacts(backend, facts, user_id, raw, now) ==
    IF raw = <<>> THEN facts
    ELSE LET f == Head(raw)
             next == IF f.confidence >= 5000
                     THEN learn_fact(backend, facts, user_id, f.key, f.value,
                                     "general", f.confidence, "conversation",
                                     now)
                     ELSE facts
         IN  LearnFacts(backend, next, user_id, Tail(raw), now)

\* the learned_facts of the response
LearnedFacts(raw) ==
    LET kept == SelectSeq(raw, LAMBDA f : f.confidence >= 5000)
    IN  [i \in 1..Len(kept) |-> [key |-> kept[i].key, value |-> kept[i].value]]

\* ------------------------------------------------------------------------
\* Specification of one EVCEngine under sequences of its public calls
\* ------------------------------------------------------------------------

\* total process_turn calls explored with every input at every turn
MaxTurns == 2

\* total process_turn calls explored while one input is held
MaxHeldTurns == 170

Personalities ==
    {PERSONALITY_DEFAULT, PERSONALITY_SENSITIVE,
     PERSONALITY_CALM, PERSONALITY_CHEERFUL}

Inputs ==
    { [S |-> 10000, D |-> 0, C |-> 10000, delta_t |-> 10000, message |-> "thanks"],
      [S |-> 0, D |-> 10000, C |-> 15000, delta_t |-> 500, message |-> "awful"],
      [S |-> 0, D |-> 0, C |-> 5000, delta_t |-> 120000, message |-> "ok"],
      [S |-> 10000, D |-> 0, C |-> 15000, delta_t |-> 0, message |-> "wow"] }

NoEngine == [name |-> "none"]

NoInput == [message |-> "none"]

MixedInput == [message |-> "mixed"]

\* ------------------------------------------------------------------------
\* Bounds and inputs of the specification of the chat orchestrator
\* ------------------------------------------------------------------------

\* requests (chat or reset) served in one behaviour
MaxRequests == 2

\* collaborator calls (analyzer, LLM, repository) that fail in one behaviour
MaxFaults == 1

\* threads of the server's pool that run the synchronous handlers
Workers == {1, 2}

Users == {NoUser, [id |-> "u1", is_guest |-> FALSE]}

\* a request's message, the seconds since the previous request arrived, and
\* what the language model would answer to it: the analysis (which the
\* handler clamps), the reply and the extracted facts
ChatInputs ==
    { [message |-> "thanks", gap |-> 1,
       llm |-> [S |-> 12000, D |-> 0, C |-> 10000, user_emotion |-> "grateful"],
       llm_reply |-> "you are welcome",
       llm_facts |-> <<>>],
      [message |-> "bad day", gap |-> 600,
       llm |-> [S |-> 1000, D |-> 9000, C |-> 18000, user_emotion |-> "sad"],
       llm_reply |-> "sorry to hear",
       llm_facts |-> <<[key |-> "mood", value |-> "low", confidence |-> 9000]>>],
      [message |-> "back again", gap |-> 4000,
       llm |-> [S |-> 5000, D |-> 5000, C |-> 10000, user_emotion |-> "neutral"],
       llm_reply |-> "welcome back",
       llm_facts |-> <<>>] }

\* the deployment: DB_BACKEND, and whether GROQ_API_KEY gives a client
Configs ==
    [db_backend : {"sqlite", "firebase"}, groq_client : BOOLEAN]

NoRequest == [id |-> 0]

NoAnalysis == [user_emotion |-> "none"]

NoResponse == [status |-> "none"]

\* the response of a request whose handler raised
ErrorResponse == [status |-> "error"]

NoCompletedTurn == [turn |-> -1]

\* a session object that nothing refers to any more
Freed == [session_id |-> "freed"]

\* a worker between requests; request, response, failed_call, turn_result,
\* evc_full and resume_of keep what its last request left; tracker_result
\* is the record that user_tracker.record_turn returned
IdleWorker ==
    [pc |-> "idle",
     request |-> NoRequest,
     state |-> 0,
     now_ts |-> 0,
     analysis |-> NoAnalysis,
     user_tracker |-> 0,
     tracker_result |-> NoResult,
     delta_t |-> 0,
     turn_result |-> NoResult,
     reply |-> "",
     conv_id |-> NoConversation,
     evc_full |-> NoSnapshot,
     resume_of |-> NoCompletedTurn,
     failed_call |-> "none",
     response |-> NoResponse]

\* ------------------------------------------------------------------------
\* Bounds and inputs of the specifications of single components
\* ------------------------------------------------------------------------

\* record_turn calls explored with every input at every turn
MaxFreeRecords == 7

\* record_turn calls explored while one input is held
MaxRecords == 52

TrackerInputs ==
    { [S |-> 9000, D |-> 1000, C |-> 10000, user_emotion |-> "happy",
       message |-> "great"],
      [S |-> 1000, D |-> 9000, C |-> 12000, user_emotion |-> "upset",
       message |-> "awful"] }

\* calls of the engine factory made by one session manager
MaxFactoryCalls == 3

\* turns a caller runs on the engine of one session state
MaxSessionTurns == 1

\* compute calls made on one emotion mapper
MaxComputes == 3

\* hormone vectors given to compute: the baseline, and the hormones of
\* well-being (1-4, 7) at one level with those of stress (5, 6, 8) at another
MapperInputs ==
    {H_BASELINE} \cup
    { Vec(LAMBDA i : IF i \in {5, 6, 8} THEN b ELSE a) :
        a \in {0, 3000, SCALE}, b \in {0, 3000, SCALE} }

\* upsert_fact calls made on one repository
MaxUpserts == 3

\* the facts upserted: by learn_fact from a conversation, or explicitly
FactInputs ==
    { [user_id |-> u, category |-> "general", key |-> k, value |-> v,
       confidence |-> s.confidence, source |-> s.source] :
         u \in {"u1", "u2"}, k \in {"mood", "city"}, v \in {"a", "b"},
         s \in {[confidence |-> 8000, source |-> "conversation"],
                [confidence |-> 10000, source |-> "explicit"]} }

\* no row found for a key
NoRow == [id |-> 0]

\* ------------------------------------------------------------------------
\* delete_fact of the two repositories and its callers
\* (backend/db/sqlite_repository.py, backend/db/firebase_repository.py,
\* backend/user_memory.py, backend/main.py)
\* ------------------------------------------------------------------------

\* the users who ask for a deletion
FactUsers == {"u1", "u2"}

\* the fact ids asked for: those of the rows and one no row has
FactIds == 1..4

\* delete_fact(fact_id): the rows after the call and the value returned.
\* sqlite: UPDATE user_facts SET is_active=0 WHERE id=?, true when a row
\* has the id; firebase: nothing is written, false
delete_fact(backend, facts, fact_id) ==
    IF backend = "sqlite"
    THEN [facts |-> {IF f.id = fact_id THEN [f EXCEPT !.is_active = FALSE]
                     ELSE f : f \in facts},
          ret |-> \E f \in facts : f.id = fact_id]
    ELSE [facts |-> facts, ret |-> FALSE]

\* UserMemoryService(repo, user_id).forget_fact(fact_id)
forget_fact(backend, facts, user_id, fact_id) ==
    delete_fact(backend, facts, fact_id)

\* DELETE /api/user/facts/{fact_id} as user_id: the rows afterwards and the
\* value of "deleted"
delete_user_fact(backend, facts, user_id, fact_id) ==
    forget_fact(backend, facts, user_id, fact_id)

\* ------------------------------------------------------------------------
\* AuthService over the users and platform_identities collections
\* (backend/auth.py, backend/db/firebase_repository.py)
\* A row is a user [table, id, username, email, auth_provider, is_guest] or
\* an identity [table, id, user_id, platform, platform_uid]; the columns that
\* no lookup of AuthService reads (names shown, hashes, time stamps) are
\* left out.
\* ------------------------------------------------------------------------

\* calls made on one AuthService
MaxAuthCalls == 3

\* None
Null == "null"

Usernames == {"ann", "bob"}

Emails == {"ann@x.io", "ann@y.io"}

\* the ids Google gives its accounts
GoogleIds == {101, 102}

\* email.split("@")[0]
EmailLocalPart(email) == IF email \in {"ann@x.io", "ann@y.io"} THEN "ann" ELSE email

UserRows(rows) == {r \in rows : r.table = "users"}

IdentityRows(rows) == {r \in rows : r.table = "platform_identities"}

UserDTO(id, username, email, auth_provider, is_guest) ==
    [table |-> "users", id |-> id, username |-> username, email |-> email,
     auth_provider |-> auth_provider, is_guest |-> is_guest]

PlatformIdentityDTO(id, user_id, platform, platform_uid) ==
    [table |-> "platform_identities", id |-> id, user_id |-> user_id,
     platform |-> platform, platform_uid |-> platform_uid]

\* str(uuid.uuid4()): an id no row of the collection has
NewUserId(rows) == Cardinality(UserRows(rows)) + 1

NewIdentityId(rows) == Cardinality(IdentityRows(rows)) + 1

\* the document of a query with limit(1), or NoRow
FirstOf(found) == IF found = {} THEN NoRow ELSE CHOOSE r \in found : TRUE

get_user_by_id(rows, user_id) ==
    FirstOf({u \in UserRows(rows) : u.id = user_id})

get_user_by_username(rows, username) ==
    FirstOf({u \in UserRows(rows) : u.username = username})

get_user_by_email(rows, email) ==
    FirstOf({u \in UserRows(rows) : u.email = email})

get_user_by_platform(rows, platform, platform_uid) ==
    LET found == {p \in IdentityRows(rows) : /\ p.platform = platform
                                             /\ p.platform_uid = platform_uid}
    IN  IF found = {} THEN NoRow
        ELSE get_user_by_id(rows, (CHOOSE p \in found : TRUE).user_id)

\* what a call of AuthService leaves: the rows, the user returned, and the
\* message of the ValueError raised ("none": the call returned)
AuthOk(rows, user) == [rows |-> rows, error |-> "none", user |-> user]

AuthError(rows, error) == [rows |-> rows, error |-> error, user |-> NoRow]

register(rows, username, email) ==
    IF get_user_by_username(rows, username) # NoRow
    THEN AuthError(rows, "Username already exists")
    ELSE IF email # Null /\ get_user_by_email(rows, email) # NoRow
    THEN AuthError(rows, "Email already exists")
    ELSE LET user == UserDTO(NewUserId(rows), username, email, "local", FALSE)
         IN  AuthOk(rows \cup {user,
                               PlatformIdentityDTO(NewIdentityId(rows), user.id,
                                                   "web", user.id)},
                    user)

create_guest(rows) ==
    LET user == UserDTO(NewUserId(rows), Null, Null, "guest", TRUE)
    IN  AuthOk(rows \cup {user}, user)

google_login(rows, google_id, email) ==
    LET linked == get_user_by_platform(rows, "google", google_id)
        by_email == get_user_by_email(rows, email)
        user == UserDTO(NewUserId(rows), EmailLocalPart(email), email,
                        "google", FALSE)
    IN  IF linked # NoRow THEN AuthOk(rows, linked)
        ELSE IF by_email # NoRow
        THEN AuthOk(rows \cup {PlatformIdentityDTO(NewIdentityId(rows),
                                                   by_email.id, "google",
                                                   google_id)},
                    by_email)
        ELSE AuthOk(rows \cup {user,
                               PlatformIdentityDTO(NewIdentityId(rows), user.id,
                                                   "google", google_id)},
                    user)

upgrade_guest(rows, guest_user_id, username, email) ==
    LET user == get_user_by_id(rows, guest_user_id)
        upgraded == [user EXCEPT !.username = username,
                                 !.email = email,
                                 !.auth_provider = "local",
                                 !.is_guest = FALSE]
    IN  IF user = NoRow \/ ~user.is_guest
        THEN AuthError(rows, "Not a guest account")
        ELSE IF get_user_by_username(rows, username) # NoRow
        THEN AuthError(rows, "Username already exists")
        ELSE AuthOk((rows \ {user}) \cup {upgraded}, upgraded)

\* ------------------------------------------------------------------------
\* Bounds and inputs of the specification of the chat orchestrator over a
\* store that holds a conversation; GET /api/conversations/{id}/messages
\* ------------------------------------------------------------------------

\* turns of the stored conversation
StoredTurns == 11

\* the callers: nobody signed in, the owner of the stored conversation,
\* and another registered user
Callers ==
    {NoUser, [id |-> "u1", is_guest |-> FALSE], [id |-> "u2", is_guest |-> FALSE]}

\* the requests made of the restarted server
ResumeInputs == {in \in ChatInputs : in.gap = 600}

\* the conversation ids asked for: the stored one and one that is missing
\* until a request creates it
ConversationIds == {1, 2}

\* the message of the n-th turn of the stored conversation
StoredMessage(n) == ToString(n)

\* the main engine of a session after n turns made every TURN_SECONDS
\* seconds without a client (heuristic analysis, delta_t 1.0)
RECURSIVE StoredEngine(_)
StoredEngine(n) ==
    IF n = 0 THEN NewEngine(PERSONALITY_DEFAULT, "Jarvis")
    ELSE With(HeuristicAnalysis(StoredMessage(n)), LAMBDA a :
             ProcessTurn(StoredEngine(n - 1), a.S, a.D, a.C, SCALE,
                         StoredMessage(n)))

\* the tracker of that session
RECURSIVE StoredTracker(_)
StoredTracker(n) ==
    IF n = 0 THEN NewTracker
    ELSE With(HeuristicAnalysis(StoredMessage(n)), LAMBDA a :
             record_turn(StoredTracker(n - 1), a.S, a.D, a.C, a.user_emotion,
                         SCALE, StoredMessage(n)))

\* the snapshot the n-th turn saved
StoredSnapshot(n) ==
    With(StoredEngine(n), LAMBDA e :
        [turn |-> e.turn,
         hormones |-> e.hormones.H,
         memory |-> e.memory,
         trust |-> e.trust,
         name |-> e.name,
         user_emotion_tracker |-> TrackerGetState(StoredTracker(n))])

\* the rows the turns wrote: per turn the user's and the assistant's
StoredRows(n) ==
    [i \in 1..(2 * n) |->
        IF i % 2 = 1
        THEN [conversation_id |-> 1, role |-> "user",
              content |-> StoredMessage((i + 1) \div 2), request |-> 0]
        ELSE [conversation_id |-> 1, role |-> "assistant",
              content |-> MOCK_REPLY, request |-> 0]]

\* the methods of HormoneSystem
HormoneSystemMethods ==
    {"calculate_stimulus", "_compute_decay_factor", "_soft_clip01", "update",
     "get_delta", "get_state_dict", "reset", "get_history_array"}

\* the bot_state of the preview, from the temporary engine
PreviewState(tmp, em) ==
    [turn |-> tmp.turn,
     hormones |-> Vec(LAMBDA i : Round4(tmp.hormones.H[i])),
     emotions |-> Vec(LAMBDA i : Round4(em.emotions_normalized[i])),
     dominant_emotion |-> get_dominant(em)[1],
     dominant_score |-> Round4(get_dominant(em)[2]),
     emotion_blend |-> get_emotion_label(em),
     trust |-> Round4(tmp.trust)]

\* GET /api/conversations/{conv_id}/messages: the status of the response,
\* with its messages and bot_state. The preview calls
\* tmp_engine.hormones.apply_decay and apply_homeostasis when the snapshot
\* has a last_turn_ts; a call of a method the class does not have raises
\* AttributeError, which nothing in the handler catches.
get_conversation_messages(backend, conversations, rows, conv_id, user, limit) ==
    IF \/ conv_id \notin 1..Len(conversations)
       \/ conversations[conv_id].user_id # user.id
    THEN [status |-> 404, messages |-> <<>>, bot_state |-> NoResult]
    ELSE LET msgs == get_messages(rows, conv_id, limit)
             \* SQLiteRepository has no get_evc_state: the call raises
             \* inside the try block
             unread == backend = "sqlite"
             evc_state == IF unread THEN NoSnapshot
                          ELSE conversations[conv_id].evc_state
             last_turn_ts == IF unread THEN NoTs
                             ELSE conversations[conv_id].last_turn_ts
         IN  IF evc_state = NoSnapshot
             THEN [status |-> 200, messages |-> msgs, bot_state |-> NoResult]
             ELSE IF /\ last_turn_ts # NoTs /\ last_turn_ts # 0
                     /\ "apply_decay" \notin HormoneSystemMethods
             THEN [status |-> 500, messages |-> <<>>, bot_state |-> NoResult]
             ELSE With(LoadState(NewEngine(PERSONALITY_DEFAULT, "Jarvis"),
                                 evc_state),
                       LAMBDA tmp :
                  With(EmotionsCompute(tmp.emotions, tmp.hormones.H),
                       LAMBDA em :
                           [status |-> 200, messages |-> msgs,
                            bot_state |-> PreviewState(tmp, em)]))

VARIABLES
    eng,        \* the engine under test
    snap,       \* the last value returned by get_full_state, or NoSnapshot
    twin,       \* a fresh engine loaded from eng's snapshot, or NoEngine
    rec,        \* the record returned by eng's last process_turn
    twinRec,    \* the record returned by twin's process_turn on the same input
    op,         \* the last call made on eng
    steps,      \* number of process_turn calls made on eng
    held,       \* the input of every process_turn so far, if it was the same
    restored,   \* load_state was called on eng since construction or reset
    config,     \* the deployment, one of Configs
    sessions,   \* SessionManager._sessions: session id -> session object (0: absent)
    heap,       \* the SessionState objects ever created
    trackers,   \* the UserEmotionTracker objects ever created
    popped,     \* the session objects that reset removed from the map
    worker,     \* per worker: the position in the chat handler and its locals
    dbConversations, \* conversation rows (with evc_state, last_turn_ts), by id
    dbMessages, \* message rows in creation order
    dbFacts,    \* user fact rows
    completed,  \* per conversation: the last turn that ran its snapshot save,
                \* with the requests received until then
    clock,      \* time.time(), in seconds
    requests,   \* requests received so far
    faults,     \* collaborator calls that failed so far
    mapper,     \* an EmotionMapper under test
    tracker,    \* a UserEmotionTracker under test
    manager,    \* a SessionManager under test
    store,      \* the user_facts rows of a repository under test
    call,       \* the last call made on the component under test
    ghost       \* what the calls so far did, as the properties need it

engineVars == <<eng, snap, twin, rec, twinRec, op, steps, held, restored>>

chatVars ==
    <<config, sessions, heap, trackers, popped, worker, dbConversations,
      dbMessages, dbFacts, completed, clock, requests, faults>>

unitVars == <<mapper, tracker, manager, store, call, ghost>>

vars == <<engineVars, chatVars, unitVars>>

\* the server process before its first request: no session in memory
ProcessStarted ==
    /\ sessions = [sid \in SessionIds |-> 0]
    /\ heap = <<>>
    /\ trackers = <<>>
    /\ popped = {}
    /\ worker = [w \in Workers |-> IdleWorker]
    /\ requests = 0
    /\ faults = 0

\* the server before its first request, over an empty store
ServerStarted ==
    /\ ProcessStarted
    /\ dbConversations = <<>>
    /\ dbMessages = <<>>
    /\ dbFacts = {}
    /\ completed = <<>>
    /\ clock = 1000

\* no call made yet on the components under test
NoCall == [op |-> "none"]

UnitsIdle ==
    /\ mapper = NewEmotionMapper
    /\ tracker = NewTracker
    /\ manager = NewSessionManager
    /\ store = {}
    /\ call = NoCall
    /\ ghost = <<>>

\* the engine under test before its first call
EngineIdle ==
    /\ snap = NoSnapshot
    /\ twin = NoEngine
    /\ rec = NoResult
    /\ twinRec = NoResult
    /\ op = "init"
    /\ steps = 0
    /\ held = NoInput
    /\ restored = FALSE

InitEngine ==
    /\ eng \in {NewEngine(k, "Jarvis") : k \in Personalities}
    /\ EngineIdle
    /\ config = [db_backend |-> "sqlite", groq_client |-> FALSE]
    /\ ServerStarted
    /\ UnitsIdle

DoProcessTurn(in) ==
    /\ \/ steps < MaxTurns
       \/ /\ steps < MaxHeldTurns
          /\ held = in
          /\ eng.turn = steps
          /\ snap = NoSnapshot /\ twin = NoEngine /\ ~restored
    /\ \E e2 \in {ProcessTurn(eng, in.S, in.D, in.C, in.delta_t, in.message)} :
          /\ eng' = e2
          /\ rec' = LastResult(e2)
    /\ twinRec' = IF twin = NoEngine THEN NoResult
                  ELSE LastResult(ProcessTurn(twin, in.S, in.D, in.C,
                                              in.delta_t, in.message))
    /\ twin' = NoEngine
    /\ op' = "process_turn"
    /\ steps' = steps + 1
    /\ held' = IF held = NoInput \/ held = in THEN in ELSE MixedInput
    /\ UNCHANGED <<snap, restored>>
    /\ UNCHANGED chatVars
    /\ UNCHANGED unitVars

DoReset ==
    /\ steps <= MaxTurns
    /\ eng' = EngineReset(eng)
    /\ op' = "reset"
    /\ restored' = FALSE
    /\ rec' = NoResult
    /\ twinRec' = NoResult
    /\ twin' = NoEngine
    /\ UNCHANGED <<snap, steps, held>>
    /\ UNCHANGED chatVars
    /\ UNCHANGED unitVars

DoGetFullState ==
    /\ steps <= MaxTurns
    /\ snap = NoSnapshot
    /\ snap' = GetFullState(eng)
    /\ op' = "get_full_state"
    /\ UNCHANGED <<eng, twin, rec, twinRec, steps, held, restored>>
    /\ UNCHANGED chatVars
    /\ UNCHANGED unitVars

DoLoadState ==
    /\ steps <= MaxTurns
    /\ snap # NoSnapshot
    /\ eng' = LoadState(eng, snap)
    /\ op' = "load_state"
    /\ restored' = TRUE
    /\ twin' = NoEngine
    /\ UNCHANGED <<snap, rec, twinRec, steps, held>>
    /\ UNCHANGED chatVars
    /\ UNCHANGED unitVars

\* a freshly constructed engine of the same personality loads eng's snapshot
DoRestoreTwin ==
    /\ steps <= MaxTurns
    /\ twin' = LoadState(NewEngine(eng.hormones.K, "Jarvis"), GetFullState(eng))
    /\ op' = "restore_twin"
    /\ twinRec' = NoResult
    /\ UNCHANGED <<eng, snap, rec, steps, held, restored>>
    /\ UNCHANGED chatVars
    /\ UNCHANGED unitVars

NextEngine ==
    \/ \E in \in Inputs : DoProcessTurn(in)
    \/ DoReset
    \/ DoGetFullState
    \/ DoLoadState
    \/ DoRestoreTwin

SpecEngine == InitEngine /\ [][NextEngine]_vars

\* ------------------------------------------------------------------------
\* Specification of the chat orchestrator: POST /api/chat run by the
\* workers of the thread pool, one step per state-mutating stage of the
\* handler, and POST /api/reset
\* ------------------------------------------------------------------------

\* session and tracker objects are kept while the map, a session's data or
\* a worker's locals refer to them
Sweep(h, sess, wk) ==
    [i \in 1..Len(h) |->
        IF (\E sid \in SessionIds : sess[sid] = i)
           \/ (\E w \in Workers : wk[w].state = i)
        THEN h[i] ELSE Freed]

SweepTrackers(ts, h, wk) ==
    [i \in 1..Len(ts) |->
        IF (\E j \in 1..Len(h) :
                h[j] # Freed /\ h[j].data.user_emotion_tracker = i)
           \/ (\E w \in Workers : wk[w].user_tracker = i)
        THEN ts[i] ELSE Freed]

\* the handler returned or raised: the worker is idle again
Finished(k, failed_call, response) ==
    [IdleWorker EXCEPT !.request = k.request,
                       !.turn_result = k.turn_result,
                       !.evc_full = k.evc_full,
                       !.resume_of = k.resume_of,
                       !.failed_call = failed_call,
                       !.response = response]

\* the dictionary the handler returns
Response(k, learned_facts) ==
    [status |-> "ok",
     response |-> k.reply,
     user_emotion |-> k.analysis.user_emotion,
     signals |-> [S |-> k.analysis.S, D |-> k.analysis.D, C |-> k.analysis.C],
     delta_t |-> Round4(k.delta_t),
     bot_state |-> k.turn_result,
     learned_facts |-> learned_facts]

\* where the handler goes after get_or_create: the restore block is entered
\* only for a "conv_" session id and an authenticated user
AfterGetOrCreate(request) ==
    IF IsResume(request.session_id) /\ Authenticated(request.user)
    THEN "restore" ELSE "analyze"

InitChat ==
    /\ config \in Configs
    /\ ServerStarted
    /\ eng = NewEngine(PERSONALITY_DEFAULT, "Jarvis")
    /\ EngineIdle
    /\ UnitsIdle

\* a request arrives and its handler reads the session map
\* (get_or_create, the lookup and, for a present entry, the rest of it)
ChatBegin(w, sid, user, in) ==
    /\ requests < MaxRequests
    /\ worker[w].pc = "idle"
    /\ \A v \in Workers : v < w => worker[v].pc # "idle"
    /\ IsResume(sid) => ResumeId(sid) \in 1..Len(dbConversations)
    /\ LET ref == sessions[sid]
           request == [id |-> requests + 1, session_id |-> sid,
                       user |-> user, input |-> in]
       IN  /\ worker' = [worker EXCEPT ![w] =
                  [IdleWorker EXCEPT
                      !.request = request,
                      !.state = ref,
                      !.now_ts = clock + in.gap,
                      !.pc = IF ref = 0 THEN "create"
                             ELSE AfterGetOrCreate(request)]]
           /\ heap' = IF ref = 0 THEN heap
                      ELSE [heap EXCEPT ![ref].turn = heap[ref].engine.turn]
    /\ clock' = clock + in.gap
    /\ requests' = requests + 1
    /\ UNCHANGED <<config, sessions, trackers, popped, dbConversations,
                   dbMessages, dbFacts, completed, faults>>
    /\ UNCHANGED engineVars
    /\ UNCHANGED unitVars

\* get_or_create found no entry: it constructs a SessionState and stores it
ChatCreate(w) ==
    /\ worker[w].pc = "create"
    /\ LET sid == worker[w].request.session_id
           ref == Len(heap) + 1
       IN  /\ sessions' = [sessions EXCEPT ![sid] = ref]
           /\ worker' = [worker EXCEPT
                  ![w].state = ref,
                  ![w].now_ts = clock,
                  ![w].pc = AfterGetOrCreate(worker[w].request)]
           /\ heap' = Sweep(Append(heap, NewSessionState(sid)), sessions', worker')
    /\ trackers' = SweepTrackers(trackers, heap', worker')
    /\ UNCHANGED <<config, popped, dbConversations, dbMessages, dbFacts,
                   completed, clock, requests, faults>>
    /\ UNCHANGED engineVars
    /\ UNCHANGED unitVars

\* what can raise inside the try block of the restore
RestoreFailures == {"get_evc_state", "load_state", "tracker_load_state"}

\* 0a: restore the engine, the tracker and last_turn_ts from the store; the
\* stored document may be unreadable (get_evc_state raises), may lack a key
\* load_state reads, or may hold tracker history the hydration cannot read
ChatRestore(w) ==
    /\ worker[w].pc = "restore"
    /\ \E raised \in {"none"} \cup RestoreFailures :
       \E missing \in {LoadedKeys[i] : i \in 1..Len(LoadedKeys)} :
        LET k == worker[w]
            st == heap[k.state]
            resume_id == ResumeId(k.request.session_id)
            attempt == ~st.data.evc_restored
            \* SQLiteRepository has no get_evc_state: the call raises
            unread == raised = "get_evc_state" \/ config.db_backend = "sqlite"
            doc == dbConversations[resume_id]
            saved_evc == IF unread THEN NoSnapshot ELSE doc.evc_state
            saved_ts == IF unread THEN NoTs ELSE doc.last_turn_ts
            found == attempt /\ saved_evc # NoSnapshot
            loaded == found /\ raised = "none"
            tracker_ref == Len(trackers) + 1
        IN  /\ raised # "none" => /\ faults < MaxFaults
                                  /\ attempt
                                  /\ config.db_backend = "firebase"
            /\ raised \in {"load_state", "tracker_load_state"} => found
            /\ raised # "load_state" => missing = LoadedKeys[1]
            /\ heap' = [heap EXCEPT
                   ![k.state].engine =
                       IF ~found THEN st.engine
                       ELSE IF raised = "load_state"
                       THEN LoadStateUntil(st.engine, saved_evc, missing)
                       ELSE LoadState(st.engine, saved_evc),
                   ![k.state].data.user_emotion_tracker =
                       IF loaded THEN tracker_ref
                       ELSE st.data.user_emotion_tracker,
                   ![k.state].data.last_turn_ts =
                       IF loaded /\ saved_ts # NoTs /\ saved_ts # 0
                       THEN saved_ts ELSE st.data.last_turn_ts,
                   ![k.state].data.evc_restored = TRUE]
            /\ worker' = [worker EXCEPT
                   ![w].pc = "analyze",
                   ![w].failed_call = raised,
                   ![w].resume_of = IF attempt THEN completed[resume_id]
                                    ELSE NoCompletedTurn]
            /\ trackers' =
                   IF loaded
                   THEN SweepTrackers(
                            Append(trackers,
                                   TrackerLoadState(NewTracker,
                                       saved_evc.user_emotion_tracker)),
                            heap', worker')
                   ELSE trackers
            /\ faults' = faults + (IF raised # "none" THEN 1 ELSE 0)
    /\ UNCHANGED <<config, sessions, popped, dbConversations, dbMessages,
                   dbFacts, completed, clock, requests>>
    /\ UNCHANGED engineVars
    /\ UNCHANGED unitVars

\* 3, 3b: analyze the message, clamp the signals, step the user tracker
ChatAnalyze(w) ==
    /\ worker[w].pc = "analyze"
    /\ \E fail \in BOOLEAN :
        LET k == worker[w]
            in == k.request.input
            st == heap[k.state]
            analysis == analyze_message(config.groq_client, in.message, in.llm)
            S == Clamp(analysis.S, 0, SCALE)
            D == Clamp(analysis.D, 0, SCALE)
            C == Clamp(analysis.C, 5000, 15000)
            have == st.data.user_emotion_tracker # 0
            ref == IF have THEN st.data.user_emotion_tracker
                   ELSE Len(trackers) + 1
            before == IF have THEN trackers[ref] ELSE NewTracker
        IN  /\ fail => faults < MaxFaults /\ config.groq_client
            /\ IF fail
               THEN /\ worker' = [worker EXCEPT ![w] =
                           Finished(k, "analyze_message", ErrorResponse)]
                    /\ heap' = Sweep(heap, sessions, worker')
                    /\ trackers' = SweepTrackers(trackers, heap', worker')
               ELSE \* record_turn is called without delta_t: its
                    \* default, 1.0
                    /\ \E after \in {record_turn(before, S, D, C,
                                                 analysis.user_emotion,
                                                 SCALE, in.message)} :
                       /\ worker' = [worker EXCEPT
                           ![w].pc = "engine",
                           ![w].analysis = [S |-> S, D |-> D, C |-> C,
                                            user_emotion |-> analysis.user_emotion],
                           ![w].user_tracker = ref,
                           ![w].tracker_result = after.last_turn_result]
                       /\ trackers' = IF have
                                      THEN [trackers EXCEPT ![ref] = after]
                                      ELSE Append(trackers, after)
                    /\ heap' = [heap EXCEPT
                           ![k.state].data.user_emotion_tracker = ref]
            /\ faults' = faults + (IF fail THEN 1 ELSE 0)
    /\ UNCHANGED <<config, sessions, popped, dbConversations, dbMessages,
                   dbFacts, completed, clock, requests>>
    /\ UNCHANGED engineVars
    /\ UNCHANGED unitVars

\* 4: delta_t from last_turn_ts, then engine.process_turn
ChatEngine(w) ==
    /\ worker[w].pc = "engine"
    /\ LET k == worker[w]
           st == heap[k.state]
           delta_t == compute_delta_t_turns(st.data.last_turn_ts, k.now_ts)
       IN  \E e2 \in {ProcessTurn(st.engine, k.analysis.S, k.analysis.D,
                                  k.analysis.C, delta_t,
                                  k.request.input.message)} :
             /\ heap' = [heap EXCEPT
                    ![k.state].engine = e2,
                    ![k.state].turn = LastResult(e2).turn,
                    ![k.state].data.last_turn_ts = k.now_ts,
                    ![k.state].data.latest_turn = LastResult(e2)]
             /\ worker' = [worker EXCEPT
                    ![w].pc = "reply",
                    ![w].delta_t = delta_t,
                    ![w].turn_result = LastResult(e2)]
    /\ UNCHANGED <<config, sessions, trackers, popped, dbConversations,
                   dbMessages, dbFacts, completed, clock, requests, faults>>
    /\ UNCHANGED engineVars
    /\ UNCHANGED unitVars

\* 5: the history for the LLM (hydrated from the store when resuming),
\* generate_reply, the update of chat_history; an unauthenticated request
\* returns from here
ChatReply(w) ==
    /\ worker[w].pc = "reply"
    /\ \E fail \in BOOLEAN :
        LET k == worker[w]
            in == k.request.input
            st == heap[k.state]
            hydrate == /\ st.data.chat_history = <<>>
                       /\ IsResume(k.request.session_id)
                       /\ Authenticated(k.request.user)
            db_msgs == get_messages(dbMessages,
                                    ResumeId(k.request.session_id), 20)
            chat_history ==
                IF hydrate
                THEN [i \in 1..Len(db_msgs) |->
                         [role |-> db_msgs[i].role,
                          content |-> db_msgs[i].content]]
                ELSE st.data.chat_history
            reply == generate_reply(config.groq_client, in.llm_reply)
            appended == chat_history
                        \o <<[role |-> "user", content |-> in.message],
                             [role |-> "assistant", content |-> reply]>>
            k2 == [k EXCEPT !.reply = reply]
        IN  /\ fail => faults < MaxFaults /\ config.groq_client
            /\ IF fail
               THEN /\ worker' = [worker EXCEPT ![w] =
                           Finished(k, "generate_reply", ErrorResponse)]
                    /\ heap' = Sweep(heap, sessions, worker')
               ELSE /\ worker' = [worker EXCEPT ![w] =
                           IF Authenticated(k.request.user)
                           THEN [k2 EXCEPT !.pc = "persist_user"]
                           ELSE Finished(k2, "none", Response(k2, <<>>))]
                    /\ heap' = Sweep(
                           [heap EXCEPT
                               ![k.state].data.last_reply = reply,
                               ![k.state].data.chat_history = LastN(appended, 30)],
                           sessions, worker')
            /\ trackers' = SweepTrackers(trackers, heap', worker')
            /\ faults' = faults + (IF fail THEN 1 ELSE 0)
    /\ UNCHANGED <<config, sessions, popped, dbConversations, dbMessages,
                   dbFacts, completed, clock, requests>>
    /\ UNCHANGED engineVars
    /\ UNCHANGED unitVars

\* 7, first part: resolve or create the conversation, write the user row
ChatPersistUser(w) ==
    /\ worker[w].pc = "persist_user"
    /\ \E raised \in {"none", "get_conversation", "create_conversation",
                      "create_message"} :
        LET k == worker[w]
            in == k.request.input
            st == heap[k.state]
            user == k.request.user
            resume_id == ResumeId(k.request.session_id)
            lookup == /\ st.data.conversation_id = NoConversation
                      /\ IsResume(k.request.session_id)
            owned == /\ lookup
                     /\ resume_id \in 1..Len(dbConversations)
                     /\ dbConversations[resume_id].user_id = user.id
            resolved == IF owned THEN resume_id ELSE st.data.conversation_id
            create == resolved = NoConversation
            \* uuid4: an id no conversation has
            conv_id == IF create THEN Len(dbConversations) + 1 ELSE resolved
            created == create /\ raised \in {"none", "create_message"}
        IN  /\ raised # "none" => faults < MaxFaults
            /\ raised = "get_conversation" => lookup
            /\ raised = "create_conversation" => create
            /\ dbConversations' =
                   IF created
                   THEN Append(dbConversations,
                               [user_id |-> user.id, title |-> in.message,
                                evc_state |-> NoSnapshot, last_turn_ts |-> NoTs])
                   ELSE dbConversations
            /\ completed' = IF created THEN Append(completed, NoCompletedTurn)
                            ELSE completed
            /\ dbMessages' =
                   IF raised = "none"
                   THEN Append(dbMessages,
                               [conversation_id |-> conv_id, role |-> "user",
                                content |-> in.message, request |-> k.request.id])
                   ELSE dbMessages
            /\ worker' = [worker EXCEPT ![w] =
                   IF raised = "none"
                   THEN [k EXCEPT !.pc = "persist_assistant", !.conv_id = conv_id]
                   ELSE Finished(k, raised, ErrorResponse)]
            /\ heap' = Sweep(
                   [heap EXCEPT ![k.state].data.conversation_id =
                       IF raised = "get_conversation" THEN st.data.conversation_id
                       ELSE IF raised = "create_conversation" THEN resolved
                       ELSE conv_id],
                   sessions, worker')
            /\ trackers' = SweepTrackers(trackers, heap', worker')
            /\ faults' = faults + (IF raised # "none" THEN 1 ELSE 0)
    /\ UNCHANGED <<config, sessions, popped, dbFacts, clock, requests>>
    /\ UNCHANGED engineVars
    /\ UNCHANGED unitVars

\* 7, second part: write the assistant row
ChatPersistAssistant(w) ==
    /\ worker[w].pc = "persist_assistant"
    /\ \E fail \in BOOLEAN :
        LET k == worker[w]
        IN  /\ fail => faults < MaxFaults
            /\ dbMessages' =
                   IF fail THEN dbMessages
                   ELSE Append(dbMessages,
                               [conversation_id |-> k.conv_id,
                                role |-> "assistant", content |-> k.reply,
                                request |-> k.request.id])
            /\ worker' = [worker EXCEPT ![w] =
                   IF fail THEN Finished(k, "create_message", ErrorResponse)
                   ELSE [k EXCEPT !.pc = "save"]]
            /\ heap' = Sweep(heap, sessions, worker')
            /\ trackers' = SweepTrackers(trackers, heap', worker')
            /\ faults' = faults + (IF fail THEN 1 ELSE 0)
    /\ UNCHANGED <<config, sessions, popped, dbConversations, dbFacts,
                   completed, clock, requests>>
    /\ UNCHANGED engineVars
    /\ UNCHANGED unitVars

\* 7, last part, and 8: save the snapshot of the engine and the tracker,
\* learn the extracted facts, return the response
ChatSave(w) ==
    /\ worker[w].pc = "save"
    /\ \E raised \in {"none", "save_evc_state", "learn_fact"} :
        LET k == worker[w]
            in == k.request.input
            st == heap[k.state]
            evc_full ==
                [turn |-> st.engine.turn,
                 hormones |-> st.engine.hormones.H,
                 memory |-> st.engine.memory,
                 trust |-> st.engine.trust,
                 name |-> st.engine.name,
                 user_emotion_tracker |-> TrackerGetState(trackers[k.user_tracker])]
            \* SQLiteRepository has no save_evc_state: the call raises
            saved == raised # "save_evc_state" /\ config.db_backend = "firebase"
            raw_facts == extract_facts(config.groq_client, in.llm_facts)
            learned == raised # "learn_fact"
            k2 == [k EXCEPT !.evc_full = evc_full]
        IN  /\ raised # "none" => faults < MaxFaults
            /\ raised = "save_evc_state" => config.db_backend = "firebase"
            /\ raised = "learn_fact" => LearnedFacts(raw_facts) # <<>>
            /\ dbConversations' =
                   IF saved
                   THEN [dbConversations EXCEPT
                            ![k.conv_id].evc_state = evc_full,
                            ![k.conv_id].last_turn_ts = k.now_ts]
                   ELSE dbConversations
            /\ completed' =
                   IF raised # "save_evc_state"
                   THEN [completed EXCEPT ![k.conv_id] =
                            [turn |-> k.turn_result.turn,
                             evc_full |-> evc_full,
                             last_turn_ts |-> k.now_ts,
                             requests |-> requests]]
                   ELSE completed
            /\ dbFacts' = IF learned
                          THEN LearnFacts(config.db_backend, dbFacts,
                                          k.request.user.id, raw_facts, clock)
                          ELSE dbFacts
            /\ worker' = [worker EXCEPT ![w] =
                   Finished(k2, raised,
                            Response(k2, IF learned THEN LearnedFacts(raw_facts)
                                         ELSE <<>>))]
            /\ heap' = Sweep(heap, sessions, worker')
            /\ trackers' = SweepTrackers(trackers, heap', worker')
            /\ faults' = faults + (IF raised # "none" THEN 1 ELSE 0)
    /\ UNCHANGED <<config, sessions, popped, dbMessages, clock, requests>>
    /\ UNCHANGED engineVars
    /\ UNCHANGED unitVars

\* POST /api/reset: sessions.reset(session_id) pops the entry
ResetSession(sid) ==
    /\ requests < MaxRequests
    /\ popped' = IF sessions[sid] = 0 THEN popped
                 ELSE popped \cup {sessions[sid]}
    /\ sessions' = [sessions EXCEPT ![sid] = 0]
    /\ heap' = Sweep(heap, sessions', worker)
    /\ trackers' = SweepTrackers(trackers, heap', worker)
    /\ requests' = requests + 1
    /\ UNCHANGED <<config, worker, dbConversations, dbMessages, dbFacts,
                   completed, clock, faults>>
    /\ UNCHANGED engineVars
    /\ UNCHANGED unitVars

NextChat ==
    \/ \E w \in Workers, sid \in SessionIds, user \in Users, in \in ChatInputs :
          ChatBegin(w, sid, user, in)
    \/ \E w \in Workers : ChatCreate(w)
    \/ \E w \in Workers : ChatRestore(w)
    \/ \E w \in Workers : ChatAnalyze(w)
    \/ \E w \in Workers : ChatEngine(w)
    \/ \E w \in Workers : ChatReply(w)
    \/ \E w \in Workers : ChatPersistUser(w)
    \/ \E w \in Workers : ChatPersistAssistant(w)
    \/ \E w \in Workers : ChatSave(w)
    \/ \E sid \in SessionIds : ResetSession(sid)

SpecChat == InitChat /\ [][NextChat]_vars

\* ------------------------------------------------------------------------
\* Specification of one UserEmotionTracker under sequences of its calls;
\* ghost is the sequence of all records passed to record_turn
\* ------------------------------------------------------------------------

InitTracker ==
    /\ UnitsIdle
    /\ eng = NewEngine(PERSONALITY_DEFAULT, "Jarvis")
    /\ EngineIdle
    /\ config = [db_backend |-> "sqlite", groq_client |-> FALSE]
    /\ ServerStarted

TrackerRecord(in) ==
    /\ \/ tracker.turn_count < MaxFreeRecords
       \/ /\ tracker.turn_count < MaxRecords
          /\ \A i \in 1..Len(ghost) : ghost[i].S = in.S
    /\ \E after \in {record_turn(tracker, in.S, in.D, in.C, in.user_emotion,
                                  SCALE, in.message)} :
          tracker' = after
    /\ ghost' = Append(ghost,
                       [turn |-> Len(ghost) + 1,
                        S |-> in.S, D |-> in.D, C |-> in.C,
                        user_emotion |-> in.user_emotion,
                        message_preview |-> in.message])
    /\ call' = [op |-> "record_turn"]
    /\ UNCHANGED <<mapper, manager, store>>
    /\ UNCHANGED engineVars
    /\ UNCHANGED chatVars

\* tracker.load_state(tracker.get_state())
TrackerRoundTrip ==
    /\ call.op = "record_turn"
    /\ tracker' = TrackerLoadState(tracker, TrackerGetState(tracker))
    /\ call' = [op |-> "load_state"]
    /\ UNCHANGED <<mapper, manager, store, ghost>>
    /\ UNCHANGED engineVars
    /\ UNCHANGED chatVars

TrackerGetTrend ==
    /\ call.op # "get_trend"
    /\ call' = [op |-> "get_trend", ret |-> get_trend(tracker)]
    /\ UNCHANGED <<mapper, tracker, manager, store, ghost>>
    /\ UNCHANGED engineVars
    /\ UNCHANGED chatVars

NextTracker ==
    \/ \E in \in TrackerInputs : TrackerRecord(in)
    \/ TrackerRoundTrip
    \/ TrackerGetTrend

SpecTracker == InitTracker /\ [][NextTracker]_vars

\* ------------------------------------------------------------------------
\* Specification of one SessionManager under sequences of calls made one
\* at a time; ghost is the sequence of session ids the engine factory was
\* called for
\* ------------------------------------------------------------------------

InitManager == InitTracker

ManagerGetOrCreate(sid) ==
    /\ manager.sessions[sid] = NoSession => Len(ghost) < MaxFactoryCalls
    /\ \E r \in {get_or_create(manager, sid)} :
          /\ manager' = r.manager
          /\ call' = [op |-> "get_or_create", session_id |-> sid,
                      state |-> r.state]
          /\ ghost' = IF r.factory_calls = 1 THEN Append(ghost, sid) ELSE ghost
    /\ UNCHANGED <<mapper, tracker, store>>
    /\ UNCHANGED engineVars
    /\ UNCHANGED chatVars

ManagerReset(sid) ==
    /\ \E r \in {SessionsReset(manager, sid)} :
          /\ manager' = r.manager
          /\ call' = [op |-> "reset", session_id |-> sid, ret |-> r.ret]
    /\ UNCHANGED <<mapper, tracker, store, ghost>>
    /\ UNCHANGED engineVars
    /\ UNCHANGED chatVars

\* the holder of a registered state runs a turn on its engine and writes
\* the scratch map, as the chat handler does
ManagerTurn(sid, in) ==
    /\ manager.sessions[sid] # NoSession
    /\ manager.sessions[sid].engine.turn < MaxSessionTurns
    /\ \E e2 \in {ProcessTurn(manager.sessions[sid].engine, in.S, in.D, in.C,
                                in.delta_t, in.message)} :
          manager' = [manager EXCEPT
                         !.sessions[sid].engine = e2,
                         !.sessions[sid].data.latest_turn = LastResult(e2)]
    /\ call' = [op |-> "turn", session_id |-> sid]
    /\ UNCHANGED <<mapper, tracker, store, ghost>>
    /\ UNCHANGED engineVars
    /\ UNCHANGED chatVars

NextManager ==
    \/ \E sid \in SessionIds : ManagerGetOrCreate(sid)
    \/ \E sid \in SessionIds : ManagerReset(sid)
    \/ \E sid \in SessionIds, in \in Inputs : ManagerTurn(sid, in)

SpecManager == InitManager /\ [][NextManager]_vars

\* ------------------------------------------------------------------------
\* Specification of the user_facts rows of one repository under sequences
\* of upsert_fact calls made one at a time; ghost is the sequence of facts
\* upserted, the n-th of them at time n
\* ------------------------------------------------------------------------

InitFacts ==
    /\ UnitsIdle
    /\ eng = NewEngine(PERSONALITY_DEFAULT, "Jarvis")
    /\ EngineIdle
    /\ config \in [db_backend : {"sqlite", "firebase"}, groq_client : {FALSE}]
    /\ ServerStarted

FactsUpsert(in) ==
    /\ Len(ghost) < MaxUpserts
    /\ LET now == Len(ghost) + 1
           fact == UserFactDTO(Cardinality(store) + 1, in.user_id, in.category,
                               in.key, in.value, in.confidence, in.source)
           rows == SameKey(store, fact)
       IN  /\ store' = upsert_fact(config.db_backend, store, fact, now)
           /\ call' = [op |-> "upsert_fact", fact |-> fact, now |-> now,
                       before |-> IF rows = {} THEN NoRow
                                  ELSE CHOOSE f \in rows : TRUE]
    /\ ghost' = Append(ghost, in)
    /\ UNCHANGED <<mapper, tracker, manager>>
    /\ UNCHANGED engineVars
    /\ UNCHANGED chatVars

NextFacts == \E in \in FactInputs : FactsUpsert(in)

SpecFacts == InitFacts /\ [][NextFacts]_vars

\* ------------------------------------------------------------------------
\* Specification of one EmotionMapper under sequences of compute calls
\* ------------------------------------------------------------------------

InitMapper == InitTracker

MapperCompute(H) ==
    /\ Len(mapper.history) < MaxComputes
    /\ \E after \in {EmotionsCompute(mapper, H)} :
          /\ mapper' = after
          /\ call' = [op |-> "compute", H |-> H,
                      before |-> Len(mapper.history),
                      ret |-> after.emotions_normalized]
    /\ UNCHANGED <<tracker, manager, store, ghost>>
    /\ UNCHANGED engineVars
    /\ UNCHANGED chatVars

NextMapper == \E H \in MapperInputs : MapperCompute(H)

SpecMapper == InitMapper /\ [][NextMapper]_vars

\* ------------------------------------------------------------------------
\* Specification of one repository under upsert_fact calls and
\* DELETE /api/user/facts/{fact_id} requests made one at a time
\* ------------------------------------------------------------------------

FactsDelete(user_id, fact_id) ==
    /\ \E r \in {delete_user_fact(config.db_backend, store, user_id, fact_id)} :
          /\ store' = r.facts
          /\ call' = [op |-> "delete_fact", user_id |-> user_id,
                      fact_id |-> fact_id, deleted |-> r.ret]
    /\ UNCHANGED <<mapper, tracker, manager, ghost>>
    /\ UNCHANGED engineVars
    /\ UNCHANGED chatVars

NextFactStore ==
    \/ \E in \in FactInputs : FactsUpsert(in)
    \/ \E user_id \in FactUsers, fact_id \in FactIds : FactsDelete(user_id, fact_id)

SpecFactStore == InitFacts /\ [][NextFactStore]_vars

\* ------------------------------------------------------------------------
\* Specification of one AuthService over the firebase repository under
\* sequences of its calls made one at a time; store holds the rows of the
\* users and platform_identities collections, ghost the names of the calls
\* ------------------------------------------------------------------------

InitAuth ==
    /\ UnitsIdle
    /\ eng = NewEngine(PERSONALITY_DEFAULT, "Jarvis")
    /\ EngineIdle
    /\ config = [db_backend |-> "firebase", groq_client |-> FALSE]
    /\ ServerStarted

\* the call made and what it raised
AuthCall(name, user_id, username, email, google_id, error) ==
    [op |-> name, user_id |-> user_id, username |-> username, email |-> email,
     google_id |-> google_id, error |-> error]

AuthRegister(username, email) ==
    /\ Len(ghost) < MaxAuthCalls
    /\ \E r \in {register(store, username, email)} :
          /\ store' = r.rows
          /\ call' = AuthCall("register", 0, username, email, 0, r.error)
    /\ ghost' = Append(ghost, "register")
    /\ UNCHANGED <<mapper, tracker, manager>>
    /\ UNCHANGED engineVars
    /\ UNCHANGED chatVars

AuthCreateGuest ==
    /\ Len(ghost) < MaxAuthCalls
    /\ \E r \in {create_guest(store)} :
          /\ store' = r.rows
          /\ call' = AuthCall("create_guest", r.user.id, Null, Null, 0, r.error)
    /\ ghost' = Append(ghost, "create_guest")
    /\ UNCHANGED <<mapper, tracker, manager>>
    /\ UNCHANGED engineVars
    /\ UNCHANGED chatVars

AuthGoogleLogin(google_id, email) ==
    /\ Len(ghost) < MaxAuthCalls
    /\ \E r \in {google_login(store, google_id, email)} :
          /\ store' = r.rows
          /\ call' = AuthCall("google_login", r.user.id, Null, email,
                              google_id, r.error)
    /\ ghost' = Append(ghost, "google_login")
    /\ UNCHANGED <<mapper, tracker, manager>>
    /\ UNCHANGED engineVars
    /\ UNCHANGED chatVars

AuthUpgradeGuest(guest_user_id, username, email) ==
    /\ Len(ghost) < MaxAuthCalls
    /\ \E r \in {upgrade_guest(store, guest_user_id, username, email)} :
          /\ store' = r.rows
          /\ call' = AuthCall("upgrade_guest", guest_user_id, username, email,
                              0, r.error)
    /\ ghost' = Append(ghost, "upgrade_guest")
    /\ UNCHANGED <<mapper, tracker, manager>>
    /\ UNCHANGED engineVars
    /\ UNCHANGED chatVars

NextAuth ==
    \/ \E username \in Usernames, email \in Emails \cup {Null} :
          AuthRegister(username, email)
    \/ AuthCreateGuest
    \/ \E google_id \in GoogleIds, email \in Emails :
          AuthGoogleLogin(google_id, email)
    \/ \E guest_user_id \in 1..MaxAuthCalls, username \in Usernames,
          email \in Emails \cup {Null} :
          AuthUpgradeGuest(guest_user_id, username, email)

SpecAuth == InitAuth /\ [][NextAuth]_vars

\* ------------------------------------------------------------------------
\* Specification of the chat orchestrator and the conversation endpoint
\* after a restart of the server: no session is in memory, and the firebase
\* store holds conversation 1, which user u1 made in StoredTurns turns
\* ------------------------------------------------------------------------

InitResume ==
    /\ config = [db_backend |-> "firebase", groq_client |-> FALSE]
    /\ ProcessStarted
    /\ \E saved \in {StoredSnapshot(StoredTurns)} :
          /\ dbConversations =
                 <<[user_id |-> "u1", title |-> StoredMessage(1),
                    evc_state |-> saved,
                    last_turn_ts |-> StoredTurns * TURN_SECONDS]>>
          /\ completed =
                 <<[turn |-> StoredTurns, evc_full |-> saved,
                    last_turn_ts |-> StoredTurns * TURN_SECONDS,
                    requests |-> 0]>>
    /\ dbMessages = StoredRows(StoredTurns)
    /\ dbFacts = {}
    /\ clock = (StoredTurns + 1) * TURN_SECONDS
    /\ eng = NewEngine(PERSONALITY_DEFAULT, "Jarvis")
    /\ EngineIdle
    /\ UnitsIdle

GetConversationMessages(user, conv_id) ==
    /\ requests < MaxRequests
    /\ \E r \in {get_conversation_messages(config.db_backend, dbConversations,
                                           dbMessages, conv_id, user, 100)} :
          call' = [op |-> "get_conversation_messages", request |-> requests + 1,
                   user |-> user, conv_id |-> conv_id, response |-> r]
    /\ requests' = requests + 1
    /\ UNCHANGED <<config, sessions, heap, trackers, popped, worker,
                   dbConversations, dbMessages, dbFacts, completed, clock,
                   faults>>
    /\ UNCHANGED <<mapper, tracker, manager, store, ghost>>
    /\ UNCHANGED engineVars

NextResume ==
    \/ \E w \in Workers, sid \in SessionIds, user \in Callers, in \in ResumeInputs :
          ChatBegin(w, sid, user, in)
    \/ \E w \in Workers : ChatCreate(w)
    \/ \E w \in Workers : ChatRestore(w)
    \/ \E w \in Workers : ChatAnalyze(w)
    \/ \E w \in Workers : ChatEngine(w)
    \/ \E w \in Workers : ChatReply(w)
    \/ \E w \in Workers : ChatPersistUser(w)
    \/ \E w \in Workers : ChatPersistAssistant(w)
    \/ \E w \in Workers : ChatSave(w)
    \/ \E sid \in SessionIds : ResetSession(sid)
    \/ \E user \in Callers \ {NoUser}, conv_id \in ConversationIds :
          GetConversationMessages(user, conv_id)

SpecResume == InitResume /\ [][NextResume]_vars

\* ------------------------------------------------------------------------
\* Properties of the engine
\* ------------------------------------------------------------------------

\* C3 (as claimed): in every reachable state of an engine, after any
\* sequence of process_turn, reset and load_state, the logs agree with the
\* turn counter: len(hormones.history) = turn + 1, len(emotions.history) =
\* turn and len(turn_log) = turn.
C3_LogsAgreeWithTurn ==
    /\ Len(eng.hormones.history) = eng.turn + 1
    /\ Len(eng.emotions.history) = eng.turn
    /\ Len(eng.turn_log) = eng.turn

\* C3 (amended): the three logs always agree with each other, one entry
\* per turn this engine object processed since construction or reset; they
\* agree with the turn counter as long as load_state has not been called
\* since construction or reset (load_state sets turn and leaves the logs).
C3_LogsAgreeUnlessLoaded ==
    /\ Len(eng.hormones.history) = Len(eng.turn_log) + 1
    /\ Len(eng.emotions.history) = Len(eng.turn_log)
    /\ ~restored => Len(eng.turn_log) = eng.turn

C3_Witness ==
    /\ restored
    /\ op = "process_turn"
    /\ Len(eng.turn_log) > 0
    /\ eng.turn # Len(eng.turn_log)

\* C4: TRUST_MIN <= trust <= TRUST_MAX in every reachable state of an
\* engine (also of one loaded from a snapshot), and trust = TRUST_INITIAL
\* right after construction and right after reset.
C4_TrustInRange ==
    /\ TRUST_MIN <= eng.trust /\ eng.trust <= TRUST_MAX
    /\ twin # NoEngine => TRUST_MIN <= twin.trust /\ twin.trust <= TRUST_MAX
    /\ op \in {"init", "reset"} => eng.trust = TRUST_INITIAL

\* trust driven down to the lower end of its range by a held negative signal
C4_Witness ==
    /\ op = "process_turn"
    /\ steps > MaxTurns
    /\ eng.trust <= TRUST_MIN + 10

\* C5: a freshly constructed engine of the same personality that loaded
\* get_full_state() of the original returns, for the same next
\* process_turn, a record equal to the original's in every field.
C5_RoundTrip == twinRec # NoResult => twinRec = rec

C5_Witness ==
    /\ twinRec # NoResult
    /\ rec.turn >= 2
    /\ eng.hormones.K # PERSONALITY_DEFAULT
    /\ rec.hormone_delta # ZeroVector

\* ------------------------------------------------------------------------
\* Properties of the chat orchestrator
\* ------------------------------------------------------------------------

\* the worker is inside the state-mutating part of a turn: it has stepped
\* the tracker and has not yet returned
Mutating(w) ==
    worker[w].pc \in {"engine", "reply", "persist_user", "persist_assistant",
                      "save"}

\* C1: at most one turn per session id is in flight: the state-mutating
\* steps of two turns on the same session id never interleave.
C1_TurnsSerialized ==
    \A w1, w2 \in Workers :
        (w1 # w2 /\ Mutating(w1) /\ Mutating(w2))
        => worker[w1].request.session_id # worker[w2].request.session_id

\* C2: every handler that got a session state from get_or_create holds the
\* state registered in the map for its session id (unless a reset removed
\* that state): concurrent calls for an absent id register one state and
\* all receive it.
C2_OneRegisteredState ==
    \A w \in Workers :
        (worker[w].state # 0 /\ worker[w].state \notin popped)
        => sessions[worker[w].request.session_id] = worker[w].state

\* the engine, the tracker and last_turn_ts of session object st are the
\* ones of the completed turn c
StartsFrom(st, c) ==
    /\ st.engine.turn = c.evc_full.turn
    /\ st.engine.hormones.H = c.evc_full.hormones
    /\ st.engine.memory = c.evc_full.memory
    /\ st.engine.trust = c.evc_full.trust
    /\ st.data.user_emotion_tracker # 0
    /\ TrackerGetState(trackers[st.data.user_emotion_tracker])
           = c.evc_full.user_emotion_tracker
    /\ st.data.last_turn_ts = c.last_turn_ts

\* C6: with each backend, the owner's first turn on a new live session
\* "conv_<id>", arriving after turn n of that conversation ran its snapshot
\* save, starts from the saved engine, tracker and timestamp, and returns
\* bot_state.turn = n + 1.
C6_ResumeContinuity ==
    \A w \in Workers :
        LET k == worker[w]
            alone == \A v \in Workers \ {w} : worker[v].pc = "idle"
        IN  (/\ k.resume_of # NoCompletedTurn
             /\ k.resume_of.requests < k.request.id
             /\ alone)
            => /\ k.pc = "analyze" => StartsFrom(heap[k.state], k.resume_of)
               /\ k.response.status = "ok"
                    => k.response.bot_state.turn = k.resume_of.turn + 1

\* C7: a turn's user row is written before its assistant row and both
\* before its snapshot is saved, and the snapshot a turn saves holds the
\* engine and the tracker after that turn's own step.
C7_RowsThenOwnSnapshot ==
    /\ \A j \in 1..Len(dbMessages) :
          dbMessages[j].role = "assistant"
          => \E i \in 1..(j - 1) : /\ dbMessages[i].role = "user"
                                   /\ dbMessages[i].request = dbMessages[j].request
    /\ \A w \in Workers :
          LET k == worker[w]
          IN  (/\ k.evc_full # NoSnapshot
               /\ config.db_backend = "firebase"
               /\ k.failed_call # "save_evc_state")
              => /\ \E j \in 1..Len(dbMessages) :
                        /\ dbMessages[j].role = "assistant"
                        /\ dbMessages[j].request = k.request.id
                 /\ k.evc_full.turn = k.turn_result.turn
                 /\ Vec(LAMBDA i : Round4(k.evc_full.hormones[i]))
                        = k.turn_result.hormones
                 /\ Round4(k.evc_full.trust) = k.turn_result.trust
                 /\ k.evc_full.user_emotion_tracker.last_turn_result.message
                        = k.request.input.message

\* C8: a request whose analyzer call failed does not fail: it is answered
\* with the heuristic analysis and its turn advanced the engine.
C8_AnalyzerFailureTolerated ==
    \A w \in Workers :
        LET k == worker[w]
        IN  k.failed_call = "analyze_message"
            => /\ k.response.status = "ok"
               /\ k.response.user_emotion
                    = HeuristicAnalysis(k.request.input.message).user_emotion
               /\ k.response.bot_state.turn >= 1

\* C9: a request whose LLM reply call failed is answered normally with the
\* canned reply, and its turn stays committed.
C9_ReplyFailureTolerated ==
    \A w \in Workers :
        LET k == worker[w]
        IN  k.failed_call = "generate_reply"
            => /\ k.response.status = "ok"
               /\ k.response.response = MOCK_REPLY
               /\ k.response.bot_state = k.turn_result

PersistenceWrites ==
    {"get_conversation", "create_conversation", "create_message",
     "save_evc_state", "learn_fact"}

\* C10: a request one of whose persistence writes failed is answered
\* normally, with the record of its completed turn.
C10_PersistenceFailureSwallowed ==
    \A w \in Workers :
        LET k == worker[w]
        IN  (k.pc = "idle" /\ k.failed_call \in PersistenceWrites)
            => /\ k.response.status = "ok"
               /\ k.response.bot_state = k.turn_result

\* C11: when reading or applying the saved snapshot fails during the
\* restore of a new live session (get_evc_state raises, load_state raises
\* on a missing key, or the tracker hydration raises), the session is as if
\* nothing had been saved: the engine is the freshly constructed one (turn
\* 0, H = memory = H_BASELINE, trust = TRUST_INITIAL), no tracker is
\* attached and last_turn_ts is unset.
C11_FailedRestoreIsBaseline ==
    \A w \in Workers :
        LET k == worker[w]
            st == heap[k.state]
        IN  (/\ k.pc = "analyze"
             /\ k.failed_call \in RestoreFailures
             /\ st.engine.turn_log = <<>>
             /\ \A v \in Workers \ {w} : worker[v].state # k.state)
            => /\ st.engine = NewEngine(PERSONALITY_DEFAULT, "Jarvis")
               /\ st.data.user_emotion_tracker = 0
               /\ st.data.last_turn_ts = NoTs

\* C12: the engine step of a turn sets the session's last_turn_ts to the
\* request's now; the delta_t it passes to process_turn is 1.0 when no
\* last_turn_ts was set and otherwise (now - last) / TURN_SECONDS clamped
\* to [0.05, 12.0], also when now is earlier than last; so every delta_t
\* passed to the main engine lies in [0.05, 12.0].
C12_DeltaTClamped ==
    [][\A w \in Workers :
          (worker[w].pc = "engine" /\ worker'[w].pc = "reply")
          => LET k == worker[w]
                 last == heap[k.state].data.last_turn_ts
                 elapsed == k.now_ts - last
                 passed == worker'[w].delta_t
             IN  /\ heap'[k.state].data.last_turn_ts = k.now_ts
                 /\ last = NoTs => passed = SCALE
                 /\ last # NoTs =>
                      passed =
                        IF elapsed * SCALE < MIN_DELTA_T * TURN_SECONDS
                        THEN MIN_DELTA_T
                        ELSE IF elapsed * SCALE > MAX_DELTA_T * TURN_SECONDS
                        THEN MAX_DELTA_T
                        ELSE RoundDiv(elapsed * SCALE, TURN_SECONDS)
                 /\ MIN_DELTA_T <= passed /\ passed <= MAX_DELTA_T
                 /\ worker'[w].turn_result.delta_t = passed]_vars

\* a turn after more than an hour of inactivity: delta_t is capped
C12_Witness ==
    \E w \in Workers :
        /\ worker[w].pc = "reply"
        /\ worker[w].turn_result.turn = 2
        /\ worker[w].delta_t = MAX_DELTA_T

\* ------------------------------------------------------------------------
\* Properties of the single components
\* ------------------------------------------------------------------------

\* C13: after any sequence of record_turn calls and load_state(get_state())
\* round trips the history has at most 50 records: it holds the most recent
\* min(turn_count, 50) records passed to record_turn, in insertion order,
\* with consecutive turn numbers ending at turn_count (an append to a full
\* buffer evicts exactly the oldest record).
C13_HistoryBounded ==
    LET h == tracker.history
    IN  /\ Len(h) <= MAX_HISTORY
        /\ tracker.turn_count = Len(ghost)
        /\ Len(h) = Min(tracker.turn_count, MAX_HISTORY)
        /\ h = LastN(ghost, MAX_HISTORY)
        /\ \A i \in 1..Len(h) : h[i].turn = tracker.turn_count - Len(h) + i

\* a round trip of a tracker whose buffer has evicted records
C13_Witness ==
    /\ call.op = "load_state"
    /\ tracker.turn_count > MAX_HISTORY
    /\ Len(tracker.history) = MAX_HISTORY
    /\ tracker.history[1].turn = tracker.turn_count - MAX_HISTORY + 1

\* the older window as the specification states it: history[-15:-5], and
\* history[:5] when the history has fewer than 15 records
C14_OlderAsSpecified(h) ==
    IF Len(h) < OLDER_WINDOW
    THEN FirstN(h, RECENT_WINDOW)
    ELSE NegSlice(h, -OLDER_WINDOW, -RECENT_WINDOW)

\* C14: get_trend returns what the specified rule gives for every history
\* of 0..50 records: insufficient data with fewer than 7 records; otherwise
\* improving, worsening or stable from the positivity of the last 5 records
\* against that of the older window, with the threshold 0.12.
C14_TrendAsSpecified ==
    call.op = "get_trend"
    => call.ret = IF Len(tracker.history) < RECENT_WINDOW + 2
                  THEN "insufficient"
                  ELSE TrendOf(LastN(tracker.history, RECENT_WINDOW),
                               C14_OlderAsSpecified(tracker.history))

\* C15: get_or_create(id) returns the registered state, with its engine
\* and scratch map as they are and without a factory call, when id is
\* present; otherwise it registers and returns a new state whose engine
\* comes from one factory call (turn 0, empty scratch map). reset(id)
\* removes the entry and returns whether it existed, so a second
\* consecutive reset(id) returns false. No call touches another id.
C15_SessionLifecycle ==
    [][LET sid == call'.session_id
           before == manager.sessions[sid]
           after == manager'.sessions[sid]
           others == \A o \in SessionIds \ {sid} :
                         manager'.sessions[o] = manager.sessions[o]
       IN  /\ call'.op = "get_or_create"
              => /\ call'.state = after
                 /\ others
                 /\ IF before # NoSession
                    THEN /\ after.engine = before.engine
                         /\ after.data = before.data
                         /\ ghost' = ghost
                    ELSE /\ ghost' = Append(ghost, sid)
                         /\ after.engine = NewEngine(PERSONALITY_DEFAULT, "Jarvis")
                         /\ after.turn = 0
                         /\ after.data = EmptyData
           /\ call'.op = "reset"
              => /\ call'.ret = (before # NoSession)
                 /\ after = NoSession
                 /\ others
                 /\ (call.op = "reset" /\ call.session_id = sid)
                    => call'.ret = FALSE]_vars

\* a session id is created, used for a turn, reset and created again
C15_Witness ==
    /\ call.op = "get_or_create"
    /\ Len(ghost) >= 2
    /\ ghost[Len(ghost)] = call.session_id
    /\ ghost[Len(ghost) - 1] = call.session_id
    /\ call.state.engine.turn = 0
    /\ call.state.data = EmptyData
    /\ \E o \in SessionIds : /\ manager.sessions[o] # NoSession
                             /\ manager.sessions[o].engine.turn = 1

\* the upserts made so far for the key of row f
C17_UpsertsOf(f) ==
    Cardinality({i \in 1..Len(ghost) : /\ ghost[i].user_id = f.user_id
                                       /\ ghost[i].category = f.category
                                       /\ ghost[i].key = f.key})

\* C17: after any sequence of upsert_fact calls the store holds at most one
\* row per (user_id, category, key), and one for every key upserted; an
\* upsert on an existing key keeps the row's id (and first_mentioned),
\* overwrites value, confidence, source and last_confirmed, and raises
\* mention_count by exactly 1, so mention_count is the number of upserts
\* made for the key.
C17_OneRowPerKey ==
    /\ \A f, g \in store : SameKey({f}, g) # {} => f = g
    /\ \A i \in 1..Len(ghost) : SameKey(store, ghost[i]) # {}
    /\ \A f \in store : f.mention_count = C17_UpsertsOf(f)
    /\ call.op = "upsert_fact"
       => \A f \in SameKey(store, call.fact) :
             /\ f.value = call.fact.value
             /\ f.confidence = call.fact.confidence
             /\ f.source = call.fact.source
             /\ f.last_confirmed = call.now
             /\ call.before # NoRow
                => /\ f.id = call.before.id
                   /\ f.first_mentioned = call.before.first_mentioned
                   /\ f.mention_count = call.before.mention_count + 1

\* a key upserted a second time, with another value, beside another row
C17_Witness ==
    /\ call.op = "upsert_fact"
    /\ call.before # NoRow
    /\ call.before.value # call.fact.value
    /\ call.before.source # call.fact.source
    /\ Cardinality(store) = 2
    /\ \E f \in store : f.mention_count = 2

\* C19: after every compute(H) the emotion vector has no negative
\* component; it sums to 1 (up to the rounding of its 8 components to the
\* grid) when some rectified raw score is positive, and is the uniform
\* vector of 1/8 otherwise; the call appends exactly one vector, the one
\* it returns, to the history.
C19_EmotionsNormalized ==
    call.op = "compute"
    => LET E == mapper.emotions_normalized
       IN  /\ \A i \in Idx : E[i] >= 0
           /\ IF \E i \in Idx : mapper.emotions_raw[i] > 0
              THEN Abs(Sum(E) - SCALE) <= NUM_EMOTIONS \div 2
              ELSE \A i \in Idx : E[i] * NUM_EMOTIONS = SCALE
           /\ Len(mapper.history) = call.before + 1
           /\ mapper.history[Len(mapper.history)] = E
           /\ call.ret = E

\* a compute that normalizes, followed by one on all-zero hormones
C19_Witness ==
    /\ call.op = "compute"
    /\ call.H = ZeroVector
    /\ Len(mapper.history) = 2
    /\ mapper.history[1] # mapper.history[2]
    /\ \E i \in Idx : mapper.history[1][i] = 0
    /\ \A i \in Idx : mapper.emotions_normalized[i] * NUM_EMOTIONS = SCALE

\* C16: after reset, from any reachable state, the engine equals a freshly
\* constructed engine of the same personality (turn 0, trust TRUST_INITIAL,
\* memory = H = H_prev = H_BASELINE, hormones.history the single baseline
\* snapshot, emotions.history and turn_log empty), and the next
\* process_turn returns the record a fresh engine returns.
C16_ResetIsFresh ==
    [][/\ op' = "reset"
          => eng' = NewEngine(eng.hormones.K, eng.name)
       /\ (op = "reset" /\ op' = "process_turn")
          => rec' = LastResult(
                        ProcessTurn(NewEngine(eng.hormones.K, eng.name),
                                    rec'.input.S, rec'.input.D, rec'.input.C,
                                    rec'.delta_t, rec'.message))]_vars

\* a turn processed after the reset of an engine that had processed one
C16_Witness ==
    /\ op = "process_turn"
    /\ steps = 2
    /\ eng.turn = 1
    /\ ~restored
    /\ Len(eng.turn_log) = 1

\* C18: after every update, for every personality preset and from every
\* reachable state, each hormone lies strictly between 0 and 1, and the
\* vector appended to the history is the clamped vector H.
C18_HormonesInOpenInterval ==
    /\ \A i \in Idx : 0 < eng.hormones.H[i] /\ eng.hormones.H[i] < SCALE
    /\ op = "process_turn"
       => eng.hormones.history[Len(eng.hormones.history)] = eng.hormones.H
    /\ twin # NoEngine
       => \A i \in Idx : 0 < twin.hormones.H[i] /\ twin.hormones.H[i] < SCALE

\* a hormone driven above 0.99 and another below 0.01 by a held input
C18_Witness ==
    /\ op = "process_turn"
    /\ steps > MaxTurns
    /\ \E i \in Idx : eng.hormones.H[i] > 9900
    /\ \E i \in Idx : eng.hormones.H[i] < 100

\* the distance from a bound of the trust range (0.01) at which a trust
\* increment is still above the resolution of the arithmetic
C20_Margin == SCALE \div 100

C21_NamesUsed(rows, c) ==
    /\ c.op \in {"register", "upgrade_guest"}
    /\ \E u \in UserRows(rows) : \/ u.username = c.username
                                 \/ c.email # Null /\ u.email = c.email

\* C21: after any sequence of register, upgrade_guest and google_login
\* calls no two users share a username and no two share an email; a
\* register or upgrade_guest call that names a used username or email
\* raises and leaves the user store unchanged.
C21_UsersUnique ==
    [][/\ \A u, v \in UserRows(store') :
             u.id # v.id
             => /\ u.username # Null => u.username # v.username
                /\ u.email # Null => u.email # v.email
       /\ (Len(ghost') = Len(ghost) + 1 /\ C21_NamesUsed(store, call'))
          => /\ call'.error # "none"
             /\ store' = store]_vars

\* ------------------------------------------------------------------------
\* Further properties of the chat orchestrator
\* ------------------------------------------------------------------------

\* C23: in every chat turn the inner engine of the tracker is stepped with
\* the same (S, D, C) and the same delta_t as the main engine of that turn.
C23_TrackerSteppedAlike ==
    [][\A w \in Workers :
          (worker[w].pc = "engine" /\ worker'[w].pc = "reply")
          => /\ worker[w].tracker_result.input = worker'[w].turn_result.input
             /\ worker[w].tracker_result.delta_t
                    = worker'[w].turn_result.delta_t]_vars

\* ------------------------------------------------------------------------
\* Properties of the chat orchestrator over a stored conversation
\* ------------------------------------------------------------------------

\* C22: within the lifetime of a live session a saved snapshot is loaded on
\* the session's first touch only: whenever the restore block of a request
\* finds a snapshot and applies load_state, the session's engine has not
\* processed a turn and has not been loaded before (it is as constructed)
C22_LoadOnFirstTouchOnly ==
    [][\A w \in Workers :
          (/\ worker[w].pc = "restore"
           /\ worker'[w].pc = "analyze"
           /\ ~heap[worker[w].state].data.evc_restored
           /\ config.db_backend = "firebase"
           /\ worker'[w].failed_call # "get_evc_state"
           /\ dbConversations[ResumeId(worker[w].request.session_id)].evc_state
                  # NoSnapshot)
          => /\ heap[worker[w].state].engine.turn = 0
             /\ Len(heap[worker[w].state].engine.turn_log) = 0]_vars


\* C24: the reply step of the first turn of a restored session (conv_ id,
\* authenticated non-guest user, no history in memory) builds its history
\* from the most recent messages of the conversation, at most 20, oldest
\* first; every other turn builds it from the history in memory. In both
\* cases the turn's own pair is appended and the last 30 entries are kept.
C24_HydratesMostRecent ==
    [][\A w \in Workers :
          LET k == worker[w]
              ref == k.state
              st == heap[ref]
              first == /\ st.data.chat_history = <<>>
                       /\ IsResume(k.request.session_id)
                       /\ Authenticated(k.request.user)
              stored == SelectSeq(dbMessages, LAMBDA r :
                            r.conversation_id = ResumeId(k.request.session_id))
              recent == LastN(stored, 20)
              before == IF first
                        THEN [i \in 1..Len(recent) |->
                                 [role |-> recent[i].role,
                                  content |-> recent[i].content]]
                        ELSE st.data.chat_history
          IN  (/\ k.pc = "reply"
               /\ worker'[w].pc # "reply"
               /\ worker'[w].failed_call # "generate_reply"
               /\ heap'[ref] # Freed)
              => heap'[ref].data.chat_history
                 = LastN(before
                         \o <<[role |-> "user",
                               content |-> k.request.input.message],
                              [role |-> "assistant",
                               content |-> heap'[ref].data.last_reply]>>,
                         30)]_vars


\* C27: GET /api/conversations/{id}/messages answers 404 for a conversation
\* that is missing or owned by another user; for a conversation of the
\* caller it answers 200 with the conversation's messages and, when a
\* snapshot with a last_turn_ts is stored, with a bot_state preview; the
\* call changes neither the stored conversations nor any live session.
C27_PreviewCompletes ==
    [][(/\ call'.op = "get_conversation_messages"
        /\ requests' # requests
        /\ call'.request = requests')
       => LET r == call'.response
              c == call'.conv_id
              owned == /\ c \in 1..Len(dbConversations)
                       /\ dbConversations[c].user_id = call'.user.id
          IN  /\ ~owned => r.status = 404
              /\ owned
                 => /\ r.status = 200
                    /\ r.messages
                       = FirstN(SelectSeq(dbMessages, LAMBDA m :
                                    m.conversation_id = c), 100)
                    /\ (/\ dbConversations[c].evc_state # NoSnapshot
                        /\ dbConversations[c].last_turn_ts # NoTs)
                       => r.bot_state # NoResult
              /\ dbConversations' = dbConversations
              /\ heap' = heap
              /\ trackers' = trackers]_vars


\* C28: every message row and every snapshot a chat turn persists goes to a
\* conversation owned by the user of that turn
C28_WritesToOwnConversation ==
    [][/\ Len(dbMessages') > Len(dbMessages)
          => LET row == dbMessages'[Len(dbMessages')]
             IN  \E w \in Workers :
                    /\ worker[w].request.id = row.request
                    /\ dbConversations'[row.conversation_id].user_id
                       = worker[w].request.user.id
       /\ \A w \in Workers :
             (/\ worker[w].pc = "save"
              /\ worker'[w].pc = "idle"
              /\ dbConversations' # dbConversations)
             => dbConversations[worker[w].conv_id].user_id
                = worker[w].request.user.id]_vars


\* C29: on a chat turn under the id conv_<X> of a conversation X that the
\* user of the turn does not own, nothing of X is read into the session:
\* the restore leaves the engine, the tracker and last_turn_ts as they
\* were, and the history of the turn is the history in memory
C29_ForeignConversationUnread ==
    [][\A w \in Workers :
          LET k == worker[w]
              ref == k.state
              st == heap[ref]
              X == ResumeId(k.request.session_id)
              foreign == /\ IsResume(k.request.session_id)
                         /\ X \in 1..Len(dbConversations)
                         /\ dbConversations[X].user_id # k.request.user.id
          IN  /\ (k.pc = "restore" /\ worker'[w].pc = "analyze" /\ foreign)
                 => /\ heap'[ref].engine = st.engine
                    /\ heap'[ref].data.user_emotion_tracker
                       = st.data.user_emotion_tracker
                    /\ heap'[ref].data.last_turn_ts = st.data.last_turn_ts
              /\ (/\ k.pc = "reply"
                  /\ worker'[w].pc # "reply"
                  /\ worker'[w].failed_call # "generate_reply"
                  /\ heap'[ref] # Freed
                  /\ foreign)
                 => heap'[ref].data.chat_history
                    = LastN(st.data.chat_history
                            \o <<[role |-> "user",
                                  content |-> k.request.input.message],
                                 [role |-> "assistant",
                                  content |-> heap'[ref].data.last_reply]>>,
                            30)]_vars


\* ------------------------------------------------------------------------
\* Further properties of the engine
\* ------------------------------------------------------------------------

\* C25: after load_state(s) turn, H, memory and trust are those of s,
\* H_prev equals H, the personality K is the engine's own, hormones.history
\* is as it was, and turn_log holds no record from before the load
C25_LoadStateFrame ==
    [][op' = "load_state"
       => /\ eng'.turn = snap.turn
          /\ eng'.hormones.H = snap.hormones
          /\ eng'.hormones.H_prev = eng'.hormones.H
          /\ eng'.memory = snap.memory
          /\ eng'.trust = snap.trust
          /\ eng'.hormones.K = eng.hormones.K
          /\ eng'.hormones.history = eng.hormones.history
          /\ eng'.turn_log = <<>>]_vars


\* ------------------------------------------------------------------------
\* Further properties of the emotion mapper
\* ------------------------------------------------------------------------

\* C26: get_top_n(n) lists the n largest entries in descending order of
\* score, equal scores in ascending order of index, so that its first
\* entry and the first name of the blend label are the emotion
\* get_dominant returns
C26_TopMatchesDominant ==
    LET E == mapper.emotions_normalized
        at(name) == CHOOSE i \in Idx : EMOTION_NAMES[i] = name
    IN  /\ \A n \in Idx :
           LET top == get_top_n(mapper, n)
           IN  /\ Len(top) = n
               /\ \A k \in 1..n : top[k][2] = Round4(E[at(top[k][1])])
               /\ \A k \in 1..(n - 1) :
                     \/ E[at(top[k][1])] > E[at(top[k + 1][1])]
                     \/ /\ E[at(top[k][1])] = E[at(top[k + 1][1])]
                        /\ at(top[k][1]) < at(top[k + 1][1])
               /\ \A i \in Idx :
                     (\A k \in 1..n : top[k][1] # EMOTION_NAMES[i])
                     => E[i] <= E[at(top[n][1])]
               /\ top[1][1] = get_dominant(mapper)[1]
        /\ get_emotion_label(mapper)[1][1] = get_dominant(mapper)[1]


\* ------------------------------------------------------------------------
\* Properties of the deletion of facts
\* ------------------------------------------------------------------------

\* C30: DELETE /api/user/facts/{fact_id} changes no fact of another user;
\* when no fact of the caller has the id it changes nothing and reports
\* failure; when it reports success, a fact of the caller with that id is
\* inactive afterwards
C30_DeletesOwnFactsOnly ==
    [][call'.op = "delete_fact"
       => LET own == {f \in store : /\ f.id = call'.fact_id
                                    /\ f.user_id = call'.user_id}
          IN  /\ \A f \in store : f.user_id # call'.user_id => f \in store'
              /\ own = {} => /\ store' = store
                             /\ ~call'.deleted
              /\ call'.deleted
                 => \E f \in own : [f EXCEPT !.is_active = FALSE] \in store']_vars

==========================================================================
